---------------------------- MODULE Spec2Model ----------------------------
(***************************************************************************)
(* A model of the media timestamp scripts of src/multimedia:               *)
(*   set_creation_date_from_filename.py  (script "scd")                    *)
(*   set_video_date_from_filename.py     (script "svd")                    *)
(*   change_shot_date.py                 (script "csd")                    *)
(* File names and timestamp strings are sequences of one-character         *)
(* strings, so that the regular expressions, strptime and strftime are     *)
(* modelled character by character.                                        *)
(***************************************************************************)
EXTENDS Integers, Sequences, FiniteSets, TLC

VARIABLES
    fn_in,          \* harness of the pure functions: the argument
    fn_out,         \* harness of the pure functions: the value returned
    fn_pc,          \* harness of the pure functions: position
    script,         \* which script runs: "scd", "svd", "csd", or "none"
    args,           \* the command line (<< >> in the harnesses)
    env,            \* the environment: exiftool installed, the directory
    media_files,    \* main(): the list of (media_type, file) to process
    idx,            \* main(): number of loop iterations completed
    success_count,  \* main(): counter
    error_count,    \* main(): counter
    skipped_count,  \* main(): counter (scd and svd only)
    outcomes,       \* per file of media_files, the counter it incremented
    calls,          \* the collaborator calls issued so far, in order
    output_dir,     \* the output subdirectory: whether it exists, its files
    pc,             \* main(): position
    exit_status,    \* the process's exit status (-1 while running)
    first_run       \* what an earlier run over the same directory did

fn_vars == <<fn_in, fn_out, fn_pc>>
run_vars == <<script, args, env, media_files, idx, success_count, error_count,
              skipped_count, outcomes, calls, output_dir, pc, exit_status,
              first_run>>
vars == <<fn_in, fn_out, fn_pc, script, args, env, media_files, idx,
          success_count, error_count, skipped_count, outcomes, calls,
          output_dir, pc, exit_status, first_run>>

---------------------------------------------------------------------------
(* Characters *)

Digits == {"0", "1", "2", "3", "4", "5", "6", "7", "8", "9"}

\* The characters of the model's alphabet that Python's \s matches.
Whitespace == {" ", "\t"}

DigitVal(c) ==
    CASE c = "0" -> 0 [] c = "1" -> 1 [] c = "2" -> 2 [] c = "3" -> 3
      [] c = "4" -> 4 [] c = "5" -> 5 [] c = "6" -> 6 [] c = "7" -> 7
      [] c = "8" -> 8 [] c = "9" -> 9

DigitChar(n) ==
    CASE n = 0 -> "0" [] n = 1 -> "1" [] n = 2 -> "2" [] n = 3 -> "3"
      [] n = 4 -> "4" [] n = 5 -> "5" [] n = 6 -> "6" [] n = 7 -> "7"
      [] n = 8 -> "8" [] n = 9 -> "9"

IsChar(s, i, set) == i \in 1..Len(s) /\ s[i] \in set

IsDigit(s, i) == IsChar(s, i, Digits)

IsWs(s, i) == IsChar(s, i, Whitespace)

\* int() of the two / four digits starting at position i
Int2(s, i) == DigitVal(s[i]) * 10 + DigitVal(s[i + 1])

Int4(s, i) == Int2(s, i) * 100 + Int2(s, i + 2)

\* The first position >= p that holds no whitespace (Len(s) + 1 if none):
\* where a greedy \s+ that started at p stops.
RECURSIVE WsRunEnd(_, _)
WsRunEnd(s, p) == IF IsWs(s, p) THEN WsRunEnd(s, p + 1) ELSE p

Min(S) == CHOOSE x \in S : \A y \in S : x <= y

---------------------------------------------------------------------------
(* datetime *)

is_leap(year) == year % 4 = 0 /\ (year % 100 # 0 \/ year % 400 = 0)

days_in_month(year, month) ==
    IF month = 2 THEN (IF is_leap(year) THEN 29 ELSE 28)
    ELSE IF month \in {4, 6, 9, 11} THEN 30 ELSE 31

NoneValue ==
    [tag |-> "None", year |-> 0, month |-> 0, day |-> 0,
     hour |-> 0, minute |-> 0, second |-> 0]

\* The ValueError datetime() raises on a field out of range.
ValueError ==
    [tag |-> "ValueError", year |-> 0, month |-> 0, day |-> 0,
     hour |-> 0, minute |-> 0, second |-> 0]

\* datetime(year, month, day, hour, minute, second)
datetime(year, month, day, hour, minute, second) ==
    IF /\ year \in 1..9999
       /\ month \in 1..12
       /\ day \in 1..days_in_month(year, month)
       /\ hour \in 0..23
       /\ minute \in 0..59
       /\ second \in 0..59
    THEN [tag |-> "datetime", year |-> year, month |-> month, day |-> day,
          hour |-> hour, minute |-> minute, second |-> second]
    ELSE ValueError

---------------------------------------------------------------------------
(* set_creation_date_from_filename.extract_date_from_filename *)

\* (\d{4})-(\d{2})-(\d{2}) matches at position i
DateAt(s, i) ==
    /\ \A k \in {0, 1, 2, 3, 5, 6, 8, 9} : IsDigit(s, i + k)
    /\ IsChar(s, i + 4, {"-"})
    /\ IsChar(s, i + 7, {"-"})

\* (\d{2})\.(\d{2})\.(\d{2}) matches at position j
TimeAt(s, j) ==
    /\ \A k \in {0, 1, 3, 4, 6, 7} : IsDigit(s, j + k)
    /\ IsChar(s, j + 2, {"."})
    /\ IsChar(s, j + 5, {"."})

\* pattern1 matches with its first character at position i. The \s+ takes
\* the whole whitespace run: what follows it must be a digit.
pattern1_at(s, i) ==
    /\ DateAt(s, i)
    /\ IsWs(s, i + 10)
    /\ TimeAt(s, WsRunEnd(s, i + 10))

\* re.search(pattern1, filename): the start of the leftmost match, 0 if none
pattern1_search(s) ==
    IF \E i \in 1..Len(s) : pattern1_at(s, i)
    THEN Min({i \in 1..Len(s) : pattern1_at(s, i)})
    ELSE 0

\* match.end() of the pattern1 match that starts at i
pattern1_end(s, i) == WsRunEnd(s, i + 10) + 7

\* datetime(int(year), ..., int(second)) of the pattern1 match that starts at i
pattern1_datetime(s, i) ==
    LET j == WsRunEnd(s, i + 10)
    IN  datetime(Int4(s, i), Int2(s, i + 5), Int2(s, i + 8),
                 Int2(s, j), Int2(s, j + 3), Int2(s, j + 6))

\* The search written r'\s*(AM|PM)': a marker with no whitespace before it
ampm_search_nows(s, e) ==
    \E p \in (e + 1)..Len(s) :
        /\ IsChar(s, p, {"A", "a", "P", "p"})
        /\ IsChar(s, p + 1, {"M", "m"})

\* The search without re.IGNORECASE
ampm_search_case(s, e) ==
    \E p \in (e + 1)..Len(s) :
        /\ IsWs(s, p)
        /\ IsChar(s, p + 1, {"A", "P"})
        /\ IsChar(s, p + 2, {"M"})

\* re.search(r'\s+(AM|PM)', filename[e:], re.IGNORECASE), e = match.end()
ampm_search(s, e) ==
    \E p \in (e + 1)..Len(s) :
        /\ IsWs(s, p)
        /\ IsChar(s, p + 1, {"A", "a", "P", "p"})
        /\ IsChar(s, p + 2, {"M", "m"})

\* The position of the hour of a pattern2 match that starts at i, 0 if
\* pattern2 does not match there up to the hour.
pattern2_hour_pos(s, i) ==
    LET a == WsRunEnd(s, i + 10)
    IN  IF /\ DateAt(s, i)
           /\ IsWs(s, i + 10)
           /\ IsChar(s, a, {"a", "A"})
           /\ IsChar(s, a + 1, {"t", "T"})
           /\ IsWs(s, a + 2)
        THEN WsRunEnd(s, a + 2)
        ELSE 0

\* The number of digits (\d{1,2}) takes at position h in a match: 2 when
\* two digits and a period follow, 1 when one digit and a period, else 0.
pattern2_hour_len(s, h) ==
    IF IsDigit(s, h) /\ IsDigit(s, h + 1) /\ IsChar(s, h + 2, {"."}) THEN 2
    ELSE IF IsDigit(s, h) /\ IsChar(s, h + 1, {"."}) THEN 1
    ELSE 0

\* pattern2 (re.IGNORECASE) matches with its first character at position i
pattern2_at(s, i) ==
    LET h == pattern2_hour_pos(s, i)
        n == pattern2_hour_len(s, h)
        m == h + n + 1
    IN  /\ h > 0
        /\ n > 0
        /\ IsDigit(s, m) /\ IsDigit(s, m + 1)
        /\ IsChar(s, m + 2, {"."})
        /\ IsDigit(s, m + 3) /\ IsDigit(s, m + 4)
        /\ IsWs(s, m + 5)
        /\ IsChar(s, WsRunEnd(s, m + 5), {"A", "a", "P", "p"})
        /\ IsChar(s, WsRunEnd(s, m + 5) + 1, {"M", "m"})

\* re.search(pattern2, filename, re.IGNORECASE): start of the leftmost match
pattern2_search(s) ==
    IF \E i \in 1..Len(s) : pattern2_at(s, i)
    THEN Min({i \in 1..Len(s) : pattern2_at(s, i)})
    ELSE 0

\* match.groups() of the pattern2 match that starts at i; ampm is upper-cased
pattern2_groups(s, i) ==
    LET h == pattern2_hour_pos(s, i)
        n == pattern2_hour_len(s, h)
        m == h + n + 1
        w == WsRunEnd(s, m + 5)
    IN  [year |-> Int4(s, i), month |-> Int2(s, i + 5), day |-> Int2(s, i + 8),
         hour |-> IF n = 2 THEN Int2(s, h) ELSE DigitVal(s[h]),
         minute |-> Int2(s, m), second |-> Int2(s, m + 3),
         ampm |-> IF s[w] \in {"P", "p"} THEN "PM" ELSE "AM"]

\* The conversion without the "hour != 12" test
to_24_hour_mut(hour, ampm) ==
    IF ampm = "PM" THEN hour + 12
    ELSE IF ampm = "AM" /\ hour = 12 THEN 0
    ELSE hour

\* Convert 12-hour to 24-hour format
to_24_hour(hour, ampm) ==
    IF ampm = "PM" /\ hour # 12 THEN hour + 12
    ELSE IF ampm = "AM" /\ hour = 12 THEN 0
    ELSE hour

\* The second half of extract_date_from_filename: pattern2 and after
extract_pattern2(filename) ==
    LET i == pattern2_search(filename)
        g == pattern2_groups(filename, i)
    IN  IF i > 0
        THEN datetime(g.year, g.month, g.day,
                      to_24_hour(g.hour, g.ampm), g.minute, g.second)
        ELSE NoneValue

\* extract_date_from_filename(filename)
extract_date_from_filename(filename) ==
    LET i == pattern1_search(filename)
        e == pattern1_end(filename, i)
    IN  IF i > 0 /\ ~(e < Len(filename) /\ ampm_search(filename, e))
        THEN pattern1_datetime(filename, i)
        ELSE extract_pattern2(filename)

(* strftime *)

\* strftime's %m, %d, %H, %M, %S: two digits, zero padded
Pad2(n) == <<DigitChar((n \div 10) % 10), DigitChar(n % 10)>>

\* strftime's %Y
Pad4(n) == Pad2(n \div 100) \o Pad2(n % 100)

---------------------------------------------------------------------------
(* BRAZIL_TZ = ZoneInfo("America/Sao_Paulo"), and the conversion to UTC *)

\* datetime's day arithmetic: the days before January 1st of year
days_before_year(year) ==
    LET y == year - 1
    IN  y * 365 + (y \div 4) - (y \div 100) + (y \div 400)

\* the days of year before the first day of month
RECURSIVE days_before_month(_, _)
days_before_month(year, month) ==
    IF month = 1 THEN 0
    ELSE days_before_month(year, month - 1) + days_in_month(year, month - 1)

\* date.toordinal(), counted from 1970-01-01 = 0
epoch_day(dt) ==
    days_before_year(dt.year) + days_before_month(dt.year, dt.month) + dt.day
        - 719163

\* The seconds since 1970-01-01 00:00:00 of the fields of dt, read as such
wall_seconds(dt) ==
    epoch_day(dt) * 86400 + dt.hour * 3600 + dt.minute * 60 + dt.second

\* The datetime whose fields read ts seconds since 1970-01-01 00:00:00
from_wall_seconds(ts) ==
    LET days == ts \div 86400
        rem == ts % 86400
        ord == days + 719163
        y == CHOOSE yy \in 1970..2037 :
                 days_before_year(yy) < ord /\ ord <= days_before_year(yy + 1)
        n == ord - days_before_year(y)
        m == CHOOSE mm \in 1..12 :
                 /\ days_before_month(y, mm) < n
                 /\ n <= days_before_month(y, mm) + days_in_month(y, mm)
    IN  [tag |-> "datetime", year |-> y, month |-> m,
         day |-> n - days_before_month(y, m),
         hour |-> rem \div 3600, minute |-> (rem % 3600) \div 60,
         second |-> rem % 60]

\* The zone's last transitions, in seconds since the epoch (UTC):
\* 2018-02-18 02:00 (DST ends), 2018-11-04 03:00 (DST starts),
\* 2019-02-17 02:00 (DST ends; none since). The table is that of the zone
\* for every instant from 2017-10-15 on.
trans_utc == <<1518919200, 1541300400, 1550368800>>

\* utc_offsets[k] is in force before transition k, utc_offsets[k + 1] after
utc_offsets == <<-7200, -10800, -7200, -10800>>

Max2(a, b) == IF a >= b THEN a ELSE b

\* The transitions in wall-clock seconds, for fold = 0: a transition counts
\* as passed once the wall clock reads past both of its sides.
trans_local(k) == trans_utc[k] + Max2(utc_offsets[k], utc_offsets[k + 1])

\* utcoffset() of the naive dt given tzinfo=BRAZIL_TZ (fold = 0)
utcoffset(dt) ==
    LET ts == wall_seconds(dt)
        n == Cardinality({k \in 1..Len(trans_utc) : trans_local(k) <= ts})
    IN  utc_offsets[n + 1]

\* The conversion with the standard-time offset whatever the date
to_utc_fixed(creation_date) ==
    from_wall_seconds(wall_seconds(creation_date) + 10800)

\* creation_date.replace(tzinfo=BRAZIL_TZ).astimezone(ZoneInfo("UTC"))
to_utc(creation_date) ==
    from_wall_seconds(wall_seconds(creation_date) - utcoffset(creation_date))

\* utc.astimezone(BRAZIL_TZ): the zone's wall-clock reading of a UTC instant
from_utc(utc) ==
    LET ts == wall_seconds(utc)
        n == Cardinality({k \in 1..Len(trans_utc) : trans_utc[k] <= ts})
    IN  from_wall_seconds(ts + utc_offsets[n + 1])

\* creation_date_br.strftime('%z') as shown: "UTC-03:00"
offset_label(creation_date) ==
    LET off == utcoffset(creation_date)
        a == IF off < 0 THEN -off ELSE off
    IN  <<"U", "T", "C", IF off < 0 THEN "-" ELSE "+">> \o Pad2(a \div 3600)
            \o <<":">> \o Pad2((a % 3600) \div 60)

---------------------------------------------------------------------------
(* Inputs of the pure functions *)

\* The longest whitespace run between the fragments of a file name
MaxWs == 2

\* The largest written hour of the 12-hour names
MaxHour == 13

Spaces(k) == [i \in 1..k |-> " "]

PrefixFragments ==
    { << >>,
      <<"[","t","r","i","p","]"," ">>,
      <<"W","h","a","t","s","A","p","p"," ","V","i","d","e","o"," ">>,
      <<"2","0","1","6","-","1","2","-","1","9"," ","1","9",".","1","0",".","4","7"," ">>,
      <<"I","M","G"," ","P","M"," ">> }

DateFragments ==
    { <<"2","0","1","8","-","0","4","-","0","7">>,
      <<"2","0","2","5","-","1","2","-","3","1">>,
      <<"2","0","1","8","-","1","3","-","0","7">>,
      <<"2","0","1","9","-","0","2","-","2","9">> }

SepFragments ==
    { Spaces(k) : k \in 1..MaxWs } \cup
    { <<"\t">>, <<" ","a","t"," ">>, <<" ","A","T","\t">>, <<"_">> }

MinSecFragments ==
    { <<".","0","8",".","3","5">>, <<".","0","0",".","6","0">> }

TimeFragments ==
    { Pad2(h) \o ms : h \in {0, 11, 12, 13, 17, 24}, ms \in MinSecFragments } \cup
    { <<DigitChar(h)>> \o <<".","0","8",".","3","5">> : h \in {1, 9} }

SuffixFragments ==
    { << >>,
      <<"-","1",".","m","p","4">>,
      <<" ","P","M",".","m","p","4">>,
      <<" ","a","m">>,
      <<" ","t","r","i","p"," ","t","o"," ","A","m","s","t","e","r","d","a","m",".","m","p","4">>,
      <<"P","M",".","m","p","4">>,
      <<" ","P","M"," ","2","0","1","8","-","0","4","-","0","7"," ","1","7",".","5","0",".","4","1",".","m","o","v">> }

\* Names in the 12-hour form, every written hour 0..MaxHour in one and in
\* two digits, every casing of the marker
TwelveHourNames ==
    { <<"2","0","2","5","-","1","2","-","3","1"," ","a","t"," ">> \o h
        \o <<".","0","8",".","3","5"," ">> \o m \o <<".","m","p","4">> :
      h \in { Pad2(n) : n \in 0..MaxHour } \cup { <<DigitChar(n)>> : n \in 0..9 },
      m \in { <<"A","M">>, <<"P","M">>, <<"a","m">>, <<"p","M">> } }

\* The names the docstrings and the usage text give
DocumentedNames ==
    { <<"[","t","r","i","p","]"," ","2","0","1","8","-","0","4","-","0","7"," ","1","7",".","5","0",".","4","1","-","1",".","m","p","4">>,
      <<"2","0","1","6","-","1","2","-","1","9"," ","1","9",".","1","0",".","4","7","-","1",".","m","4","v">>,
      <<"2","0","2","5","-","1","2","-","3","1"," ","a","t"," ","1","1",".","0","8",".","3","5"," ","P","M">>,
      <<"W","h","a","t","s","A","p","p"," ","V","i","d","e","o"," ","2","0","2","5","-","1","2","-","3","1"," ","a","t"," ","1","1",".","0","8",".","3","5"," ","P","M">> }

ExtractInputs ==
    { p \o d \o s \o t \o x :
        p \in PrefixFragments, d \in DateFragments, s \in SepFragments,
        t \in TimeFragments, x \in SuffixFragments } \cup
    TwelveHourNames \cup DocumentedNames \cup
    { <<"I","M","G","_","0","0","0","1",".","j","p","g">> }

---------------------------------------------------------------------------
(* The harness of the pure functions *)

\* No earlier run over the directory. "free" holds the operations whose
\* answers a second run may get differently from the first.
NoRun ==
    [ran |-> FALSE, free |-> {}, media_files |-> << >>, outcomes |-> << >>,
     success_count |-> 0, error_count |-> 0, skipped_count |-> 0,
     calls |-> << >>, files |-> {}, pc |-> "none", exit_status |-> -1]

IdleRun ==
    /\ first_run = NoRun
    /\ script = "none"
    /\ args = << >>
    /\ env = << >>
    /\ media_files = << >>
    /\ idx = 0
    /\ success_count = 0
    /\ error_count = 0
    /\ skipped_count = 0
    /\ outcomes = << >>
    /\ calls = << >>
    /\ output_dir = [exists |-> FALSE, files |-> {}]
    /\ pc = "idle"
    /\ exit_status = -1

InitExtract ==
    /\ fn_in \in ExtractInputs
    /\ fn_out = NoneValue
    /\ fn_pc = "call"
    /\ IdleRun

\* creation_date = extract_date_from_filename(media_file.name)
CallExtract ==
    /\ fn_pc = "call"
    /\ fn_out' = extract_date_from_filename(fn_in)
    /\ fn_pc' = "returned"
    /\ UNCHANGED <<fn_in, first_run, script, args, env, media_files, idx,
                   success_count, error_count, skipped_count, outcomes,
                   calls, output_dir, pc, exit_status>>

NextExtract == CallExtract

SpecExtract == InitExtract /\ [][NextExtract]_vars

---------------------------------------------------------------------------
(* The harness of the conversion to UTC *)

\* Minutes and seconds tried within each hour
ClockSamples == {0, 30, 59}

\* The days tried: an ordinary one, the eve and the day of the start of
\* daylight saving time (2018-11-04), the last day of a year, the eve and
\* the day of the end of daylight saving time (2019-02-17), and a day after
\* the zone gave up daylight saving time
CivilDays ==
    { <<2018, 4, 7>>, <<2018, 11, 3>>, <<2018, 11, 4>>, <<2018, 12, 31>>,
      <<2019, 2, 16>>, <<2019, 2, 17>>, <<2025, 12, 31>> }

CivilInputs ==
    { [tag |-> "datetime", year |-> d[1], month |-> d[2], day |-> d[3],
       hour |-> h, minute |-> mi, second |-> sec] :
      d \in CivilDays, h \in 0..23, mi \in ClockSamples, sec \in ClockSamples }

InitTZ ==
    /\ fn_in \in CivilInputs
    /\ fn_out = NoneValue
    /\ fn_pc = "call"
    /\ IdleRun

\* creation_date_utc = creation_date.replace(tzinfo=BRAZIL_TZ)
\*                                  .astimezone(ZoneInfo("UTC"))
NormalizeToUTC ==
    /\ fn_pc = "call"
    /\ fn_out' = to_utc(fn_in)
    /\ fn_pc' = "utc"
    /\ UNCHANGED <<fn_in, first_run, script, args, env, media_files, idx,
                   success_count, error_count, skipped_count, outcomes,
                   calls, output_dir, pc, exit_status>>

\* The UTC instant converted back into BRAZIL_TZ
ConvertBack ==
    /\ fn_pc = "utc"
    /\ fn_out' = from_utc(fn_out)
    /\ fn_pc' = "back"
    /\ UNCHANGED <<fn_in, first_run, script, args, env, media_files, idx,
                   success_count, error_count, skipped_count, outcomes,
                   calls, output_dir, pc, exit_status>>

NextTZ == NormalizeToUTC \/ ConvertBack

SpecTZ == InitTZ /\ [][NextTZ]_vars

---------------------------------------------------------------------------
(* set_video_date_from_filename.extract_date_from_filename *)

\* The optional group (?:\[.*?\]\s+) matches at i and the date pattern
\* right after it: the lazy .*? stops at the first "]" that works. The
\* position of the date, 0 if none.
bracket_date_pos(s, i) ==
    LET ks == { k \in (i + 1)..Len(s) :
                   /\ s[k] = "]"
                   /\ IsWs(s, k + 1)
                   /\ pattern1_at(s, WsRunEnd(s, k + 1)) }
    IN  IF IsChar(s, i, {"["}) /\ ks # {}
        THEN WsRunEnd(s, Min(ks) + 1)
        ELSE 0

\* The pattern matches with its first character at position i
video_pattern_at(s, i) == bracket_date_pos(s, i) > 0 \/ pattern1_at(s, i)

\* re.search(pattern, filename): the position of the date of the leftmost
\* match, 0 if none
video_pattern_search(s) ==
    IF \E i \in 1..Len(s) : video_pattern_at(s, i)
    THEN LET i == Min({k \in 1..Len(s) : video_pattern_at(s, k)})
         IN  IF bracket_date_pos(s, i) > 0 THEN bracket_date_pos(s, i) ELSE i
    ELSE 0

\* set_video_date_from_filename.extract_date_from_filename(filename)
video_extract_date_from_filename(filename) ==
    LET p == video_pattern_search(filename)
    IN  IF p = 0 THEN NoneValue ELSE pattern1_datetime(filename, p)

---------------------------------------------------------------------------
(* Files, extensions *)

VIDEO_EXTENSIONS ==
    { <<".","m","p","4">>, <<".","m","o","v">>, <<".","m","k","v">>,
      <<".","a","v","i">>, <<".","m","4","v">>, <<".","M","P","4">>,
      <<".","M","O","V">>, <<".","M","K","V">>, <<".","A","V","I">>,
      <<".","M","4","V">> }

\* set_creation_date_from_filename.PHOTO_EXTENSIONS
PHOTO_EXTENSIONS ==
    { <<".","j","p","g">>, <<".","j","p","e","g">>, <<".","p","n","g">>,
      <<".","h","e","i","c">>, <<".","J","P","G">>, <<".","J","P","E","G">>,
      <<".","P","N","G">>, <<".","H","E","I","C">> }

\* change_shot_date.PHOTO_EXTENSIONS
CSD_PHOTO_EXTENSIONS ==
    { <<".","j","p","g">>, <<".","j","p","e","g">>, <<".","p","n","g">>,
      <<".","J","P","G">>, <<".","J","P","E","G">>, <<".","P","N","G">> }

\* Path.suffix: the name from its last period on, when that period is
\* neither the first nor the last character
suffix(name) ==
    LET dots == { i \in 1..Len(name) : name[i] = "." }
        i == CHOOSE d \in dots : \A e \in dots : e <= d
    IN  IF dots = {} THEN << >>
        ELSE IF i = 1 \/ i = Len(name) THEN << >>
        ELSE SubSeq(name, i, Len(name))

\* The media type with photos kept whether exiftool is found or not
media_type_noexif(scr, f, exiftool_available) ==
    IF ~f.is_file THEN "none"
    ELSE IF suffix(f.name) \in VIDEO_EXTENSIONS THEN "video"
    ELSE IF scr = "scd" /\ suffix(f.name) \in PHOTO_EXTENSIONS THEN "photo"
    ELSE IF scr = "csd" /\ suffix(f.name) \in CSD_PHOTO_EXTENSIONS THEN "photo"
    ELSE "none"

\* The media type main() gives a directory entry, "none" when it is left out
media_type(scr, f, exiftool_available) ==
    IF ~f.is_file THEN "none"
    ELSE IF suffix(f.name) \in VIDEO_EXTENSIONS THEN "video"
    ELSE IF scr = "scd" /\ suffix(f.name) \in PHOTO_EXTENSIONS THEN "photo"
    ELSE IF scr = "csd" /\ suffix(f.name) \in CSD_PHOTO_EXTENSIONS
                /\ exiftool_available THEN "photo"
    ELSE "none"

\* The comprehension over input_dir.iterdir(): the entries kept, in order
RECURSIVE find_media(_, _, _)
find_media(scr, listing, exiftool_available) ==
    IF listing = << >> THEN << >>
    ELSE LET f == Head(listing)
             t == media_type(scr, f, exiftool_available)
             rest == find_media(scr, Tail(listing), exiftool_available)
         IN  IF t = "none" THEN rest
             ELSE <<[media_type |-> t, name |-> f.name]>> \o rest

---------------------------------------------------------------------------
(* The collaborator calls and the output subdirectory *)

\* One call of a collaborator: op is "probe", "copy" or "write"; dir is the
\* directory of the file the call writes ("" for a probe, which writes
\* none); status is the exit status returned (0 here, see Failed) and out
\* the text a probe prints (none here, see Printed)
Call(op, tool, name, dir, value) ==
    [op |-> op, tool |-> tool, name |-> name, dir |-> dir, value |-> value,
     status |-> 0, out |-> << >>]

\* The call returned a non-zero status (for shutil.copy2: raised)
Failed(c) == [c EXCEPT !.status = 1]

\* The probe printed the text out
Printed(c, out) == [c EXCEPT !.out = out]

\* The call as it returned: with status 0 when ok
Returned(c, ok) == IF ok THEN c ELSE Failed(c)

\* What processing one file did: the calls issued, whether an exception
\* left the function, and the files it left in the output subdirectory
\* (name and the timestamp written, "original" for a plain copy, "partial"
\* for what a failed ffmpeg run leaves)
Processed(cs, raised, puts) == [calls |-> cs, raised |-> raised, puts |-> puts]

Put(name, stamp) == [name |-> name, stamp |-> stamp]

\* The output subdirectory after the files of puts were written into it
put_files(dir, puts) ==
    { f \in dir : \A p \in puts : p.name # f.name } \cup puts

\* What a failed ffmpeg run leaves at output_path: nothing or a partial file
ffmpeg_leftover(name, partial) ==
    IF partial THEN {Put(name, <<"p","a","r","t","i","a","l">>)} ELSE {}

\* strftime("%Y:%m:%d %H:%M:%S")
strftime_exif(dt) ==
    Pad4(dt.year) \o <<":">> \o Pad2(dt.month) \o <<":">> \o Pad2(dt.day)
        \o <<" ">> \o Pad2(dt.hour) \o <<":">> \o Pad2(dt.minute) \o <<":">>
        \o Pad2(dt.second)

\* strftime("%Y-%m-%dT%H:%M:%SZ")
strftime_iso_z(dt) ==
    Pad4(dt.year) \o <<"-">> \o Pad2(dt.month) \o <<"-">> \o Pad2(dt.day)
        \o <<"T">> \o Pad2(dt.hour) \o <<":">> \o Pad2(dt.minute) \o <<":">>
        \o Pad2(dt.second) \o <<"Z">>

Original == <<"o","r","i","g","i","n","a","l">>

---------------------------------------------------------------------------
(* set_creation_date_from_filename: one file *)

\* set_media_creation_date(file_path, output_dir, creation_date, is_video)
\* set_media_creation_date with exiftool writing the input file in place
set_media_creation_date_inplace(name, creation_date, is_video, probe_out, probe_ok, copy_ok, write_ok) ==
    LET probe == Printed(Returned(Call("probe", "exiftool", name, "",
                                       IF is_video THEN "CreateDate"
                                       ELSE "DateTimeOriginal"), probe_ok),
                         probe_out)
        date_str == strftime_exif(to_utc(creation_date))
        write == Call("write", "exiftool", name, "", date_str)
    IN  IF ~write_ok THEN Processed(<<probe, Failed(write)>>, TRUE, {})
        ELSE Processed(<<probe, write>>, FALSE, {})

\* set_media_creation_date with the write left out, and the call raising,
\* when the probe printed nothing
set_media_creation_date_probed(name, creation_date, is_video, probe_out, probe_ok, copy_ok, write_ok) ==
    LET probe == Printed(Returned(Call("probe", "exiftool", name, "",
                                       IF is_video THEN "CreateDate"
                                       ELSE "DateTimeOriginal"), probe_ok),
                         probe_out)
        copy == Call("copy", "shutil", name, "dated", "")
        date_str == strftime_exif(to_utc(creation_date))
        write == Call("write", "exiftool", name, "dated", date_str)
    IN  IF probe_out = << >> THEN Processed(<<probe>>, TRUE, {})
        ELSE IF ~copy_ok THEN Processed(<<probe, Failed(copy)>>, TRUE, {})
        ELSE IF ~write_ok
        THEN Processed(<<probe, copy, Failed(write)>>, TRUE,
                       {Put(name, Original)})
        ELSE Processed(<<probe, copy, write>>, FALSE, {Put(name, date_str)})

\* The probe runs without check=True: its status is not looked at, and
\* what it printed (probe_out, the stripped stdout) is only shown.
set_media_creation_date(name, creation_date, is_video, probe_out, probe_ok, copy_ok, write_ok) ==
    LET probe == Printed(Returned(Call("probe", "exiftool", name, "",
                                       IF is_video THEN "CreateDate"
                                       ELSE "DateTimeOriginal"), probe_ok),
                         probe_out)
        copy == Call("copy", "shutil", name, "dated", "")
        date_str == strftime_exif(to_utc(creation_date))
        write == Call("write", "exiftool", name, "dated", date_str)
    IN  IF ~copy_ok THEN Processed(<<probe, Failed(copy)>>, TRUE, {})
        ELSE IF ~write_ok
        THEN Processed(<<probe, copy, Failed(write)>>, TRUE,
                       {Put(name, Original)})
        ELSE Processed(<<probe, copy, write>>, FALSE, {Put(name, date_str)})

\* The loop body of main() without the test for None: the function is
\* called with None and fails at creation_date.replace, after the copy
scd_file_with_date_mut(f, creation_date, probe_out, probe_ok, copy_ok, write_ok) ==
    LET r == IF creation_date = NoneValue
             THEN Processed(
                      <<Call("probe", "exiftool", f.name, "", "CreateDate"),
                        Call("copy", "shutil", f.name, "dated", "")>>,
                      TRUE,
                      IF copy_ok THEN {Put(f.name, Original)} ELSE {})
             ELSE set_media_creation_date(f.name, creation_date,
                      f.media_type = "video", probe_out, probe_ok, copy_ok,
                      write_ok)
    IN  [outcome |-> IF r.raised THEN "error" ELSE "success",
         calls |-> r.calls, puts |-> r.puts]

\* The loop body of main() once the date is extracted: the outcome counted,
\* the calls issued and the files left
scd_file_with_date(f, creation_date, probe_out, probe_ok, copy_ok, write_ok) ==
    IF creation_date = NoneValue
    THEN [outcome |-> "skipped", calls |-> << >>, puts |-> {}]
    ELSE LET r == set_media_creation_date(f.name, creation_date,
                      f.media_type = "video", probe_out, probe_ok, copy_ok,
                      write_ok)
         IN  [outcome |-> IF r.raised THEN "error" ELSE "success",
              calls |-> r.calls, puts |-> r.puts]

---------------------------------------------------------------------------
(* set_video_date_from_filename: one file *)

\* set_video_creation_date(video_path, output_dir, creation_date)
set_video_creation_date(name, creation_date, write_ok, partial) ==
    LET date_str == strftime_iso_z(to_utc(creation_date))
        write == Call("write", "ffmpeg", name, "dated", date_str)
    IN  IF ~write_ok
        THEN Processed(<<Failed(write)>>, TRUE, ffmpeg_leftover(name, partial))
        ELSE Processed(<<write>>, FALSE, {Put(name, date_str)})

\* The loop body of main() once the date is extracted
svd_file_with_date(f, creation_date, write_ok, partial) ==
    IF creation_date = NoneValue
    THEN [outcome |-> "skipped", calls |-> << >>, puts |-> {}]
    ELSE LET r == set_video_creation_date(f.name, creation_date, write_ok,
                                          partial)
         IN  [outcome |-> IF r.raised THEN "error" ELSE "success",
              calls |-> r.calls, puts |-> r.puts]

---------------------------------------------------------------------------
(* change_shot_date: arguments *)

\* The text has the layout dddd?dd?dd?dd?dd?dd, the separators as given
fixed_layout(t, sep1, sep2, sep3) ==
    /\ Len(t) >= 19
    /\ \A k \in {1, 2, 3, 4, 6, 7, 9, 10, 12, 13, 15, 16, 18, 19} : IsDigit(t, k)
    /\ t[5] = sep1 /\ t[8] = sep1
    /\ t[11] \in sep2
    /\ t[14] = sep3 /\ t[17] = sep3

\* datetime() of the fields of a text of that layout
layout_datetime(t) ==
    datetime(Int4(t, 1), Int2(t, 6), Int2(t, 9),
             Int2(t, 12), Int2(t, 15), Int2(t, 18))

\* parse_iso_date(date_string), for the texts of ExactDates:
\* datetime.fromisoformat takes YYYY-MM-DD, any one separator, HH:MM:SS;
\* what it refuses, strptime("%Y-%m-%d %H:%M:%S") refuses too.
parse_iso_date(date_string) ==
    IF Len(date_string) = 19
          /\ fixed_layout(date_string, "-", {date_string[11]}, ":")
    THEN layout_datetime(date_string)
    ELSE ValueError

\* datetime.strptime(original_time_str, "%Y-%m-%dT%H:%M:%S.%fZ"), for the
\* zero-padded texts of VideoProbes: %f takes one to six digits
strptime_ffmpeg(t) ==
    IF /\ fixed_layout(t, "-", {"T"}, ":")
       /\ Len(t) \in 22..27
       /\ t[20] = "."
       /\ \A k \in 21..(Len(t) - 1) : IsDigit(t, k)
       /\ t[Len(t)] = "Z"
    THEN layout_datetime(t)
    ELSE ValueError

\* datetime.strptime(original_date_str, "%Y:%m:%d %H:%M:%S"), for the
\* zero-padded texts of PhotoProbes
strptime_exif(t) ==
    IF Len(t) = 19 /\ fixed_layout(t, ":", {" "}, ":")
    THEN layout_datetime(t)
    ELSE ValueError

\* creation_time + timedelta(days=args.days, hours=args.hours,
\*                           minutes=args.minutes)
add_timedelta(creation_time, a) ==
    from_wall_seconds(wall_seconds(creation_time) + a.days * 86400
                          + a.hours * 3600 + a.minutes * 60)

\* validate_arguments: use_exact_date
use_exact_date(a) == a.set_date_given

\* validate_arguments: use_offset
use_offset(a) == a.days # 0 \/ a.hours # 0 \/ a.minutes # 0

\* exact_date, once validate_arguments has returned
exact_date(a) == parse_iso_date(a.set_date)

---------------------------------------------------------------------------
(* change_shot_date: one file *)

\* A test that sends every file through the probe
needs_probe_mut(exact) == TRUE

\* "if not use_exact_date:": whether the original timestamp is read
needs_probe(exact) == ~exact

\* process_video(input_video, output_video, use_exact_date, exact_date, args)
\* probe is the text ffmpeg prints after "creation_time :", << >> when it
\* prints no such line.
\* probe_ok is the status of that run of ffmpeg, which is not looked at.
process_video(name, exact, date, a, probe, probe_ok, write_ok, partial) ==
    LET probe_call == Returned(Printed(Call("probe", "ffmpeg", name, "",
                                            "creation_time"), probe),
                               probe_ok)
        creation_time == strptime_ffmpeg(probe)
        new_time == IF needs_probe(exact) THEN add_timedelta(creation_time, a)
                    ELSE date
        new_time_str == strftime_iso_z(new_time)
        before == IF needs_probe(exact) THEN <<probe_call>> ELSE << >>
        write == Call("write", "ffmpeg", name, "updated", new_time_str)
    IN  IF needs_probe(exact) /\ (probe = << >> \/ creation_time = ValueError)
        THEN Processed(before, TRUE, {})
        ELSE IF ~write_ok
        THEN Processed(before \o <<Failed(write)>>, TRUE,
                       ffmpeg_leftover(name, partial))
        ELSE Processed(before \o <<write>>, FALSE, {Put(name, new_time_str)})

\* process_photo(input_photo, output_photo, use_exact_date, exact_date, args)
\* probe is exiftool's output, stripped.
\* probe_ok is the status of the probe, which is not looked at.
process_photo(name, exact, date, a, probe, probe_ok, copy_ok, write_ok) ==
    LET probe_call == Returned(Printed(Call("probe", "exiftool", name, "",
                                            "DateTimeOriginal"), probe),
                               probe_ok)
        creation_time == strptime_exif(probe)
        new_time == IF needs_probe(exact) THEN add_timedelta(creation_time, a)
                    ELSE date
        new_time_str == strftime_exif(new_time)
        before == IF needs_probe(exact) THEN <<probe_call>> ELSE << >>
        copy == Call("copy", "shutil", name, "updated", "")
        write == Call("write", "exiftool", name, "updated", new_time_str)
    IN  IF needs_probe(exact) /\ (probe = << >> \/ creation_time = ValueError)
        THEN Processed(before, TRUE, {})
        ELSE IF ~copy_ok
        THEN Processed(before \o <<Failed(copy)>>, TRUE, {})
        ELSE IF ~write_ok
        THEN Processed(before \o <<copy, Failed(write)>>, TRUE,
                       {Put(name, Original)})
        ELSE Processed(before \o <<copy, write>>, FALSE,
                       {Put(name, new_time_str)})

\* The loop body of main(): the outcome counted, the calls, the files left
csd_file(f, exact, date, a, probe, probe_ok, copy_ok, write_ok, partial) ==
    LET r == IF f.media_type = "video"
             THEN process_video(f.name, exact, date, a, probe, probe_ok,
                                write_ok, partial)
             ELSE process_photo(f.name, exact, date, a, probe, probe_ok,
                                copy_ok, write_ok)
    IN  [outcome |-> IF r.raised THEN "error" ELSE "success",
         calls |-> r.calls, puts |-> r.puts]

---------------------------------------------------------------------------
(* The runs of the three scripts: command lines and directories *)

\* The most entries a directory holds
MaxFiles == 3

Entry(name, is_file) == [name |-> name, is_file |-> is_file]

\* The directory entries tried: a photo without a date in its name, a video
\* and a photo with a 24-hour date, a video with a 12-hour date, a video
\* whose name holds month 13, a text file, and a subdirectory
EntryPool ==
    { Entry(<<"I","M","G","_","0","0","0","1",".","j","p","g">>, TRUE),
      Entry(<<"[","t","r","i","p","]"," ","2","0","1","8","-","0","4","-","0","7"," ","1","7",".","5","0",".","4","1","-","1",".","m","p","4">>, TRUE),
      Entry(<<"2","0","1","8","-","1","1","-","0","4"," ","0","0",".","3","0",".","0","0",".","J","P","G">>, TRUE),
      Entry(<<"2","0","2","5","-","1","2","-","3","1"," ","a","t"," ","1","1",".","0","8",".","3","5"," ","P","M",".","m","o","v">>, TRUE),
      Entry(<<"2","0","1","8","-","1","3","-","0","7"," ","1","7",".","5","0",".","4","1",".","m","p","4">>, TRUE),
      Entry(<<"n","o","t","e","s",".","t","x","t">>, TRUE),
      Entry(<<"u","p","d","a","t","e","d">>, FALSE) }

Range(q) == { q[i] : i \in 1..Len(q) }

\* The orders input_dir.iterdir() may list up to n distinct entries in
RECURSIVE Listings(_)
Listings(n) ==
    IF n = 0 THEN { << >> }
    ELSE LET shorter == Listings(n - 1)
             longest == { q \in shorter : Len(q) = n - 1 }
         IN  shorter \cup
             { Append(x[1], x[2]) :
                 x \in { y \in longest \X EntryPool : y[2] \notin Range(y[1]) } }

\* The environments: only a directory has entries
Envs ==
    { e \in [exiftool : BOOLEAN, dir_kind : {"missing", "file", "dir"},
             listing : Listings(MaxFiles)] :
        e.dir_kind = "dir" \/ e.listing = << >> }

\* The values given to --set-date: the two documented forms, a text that is
\* no ISO date, and a date with month 13
ExactDates ==
    { <<"2","0","2","4","-","0","3","-","1","5","T","1","4",":","3","0",":","0","0">>,
      <<"2","0","2","4","-","0","3","-","1","5"," ","1","4",":","3","0",":","0","0">>,
      <<"1","5","/","0","3","/","2","0","2","4">>,
      <<"2","0","2","4","-","1","3","-","1","5","T","1","4",":","3","0",":","0","0">> }

\* sys.argv of the two filename scripts: one argument, or two
FilenameArgs ==
    { [argc |-> n, set_date_given |-> FALSE, set_date |-> << >>,
       days |-> 0, hours |-> 0, minutes |-> 0] : n \in {2, 3} }

\* The command lines of change_shot_date, the directory always given
ShotDateArgs ==
    { a \in [argc : {0}, set_date_given : BOOLEAN,
             set_date : ExactDates \cup {<< >>},
             days : {0, 1}, hours : {0, -2}, minutes : {0, 30}] :
        a.set_date_given = (a.set_date # << >>) }

\* What ffmpeg prints as creation_time for a video: nothing, the usual
\* text, a text in another format
VideoProbes ==
    { << >>,
      <<"2","0","2","2","-","0","1","-","0","1","T","0","0",":","0","0",":","0","0",".","0","0","0","0","0","0","Z">>,
      <<"2","0","2","2","-","0","1","-","0","1"," ","0","0",":","0","0",":","0","0">> }

\* What exiftool prints as DateTimeOriginal for a photo
PhotoProbes ==
    { << >>,
      <<"2","0","2","2",":","0","3",":","1","0"," ","0","8",":","1","5",":","0","0">>,
      <<"0","0","0","0",":","0","0",":","0","0"," ","0","0",":","0","0",":","0","0">> }

Probes(f) == IF f.media_type = "video" THEN VideoProbes ELSE PhotoProbes

\* What the probe of set_creation_date_from_filename answers: a value on
\* stdout, nothing, or a failure (a non-zero status and nothing on stdout)
ProbeAnswers ==
    { [out |-> <<"2","0","2","2",":","0","3",":","1","0"," ","0","8",":","1","5",":","0","0">>, ok |-> TRUE],
      [out |-> << >>, ok |-> TRUE],
      [out |-> << >>, ok |-> FALSE] }

Init ==
    /\ fn_in = << >>
    /\ fn_out = NoneValue
    /\ fn_pc = "idle"
    /\ script \in {"scd", "svd", "csd"}
    /\ args \in IF script = "csd" THEN ShotDateArgs ELSE FilenameArgs
    /\ env \in Envs
    /\ media_files = << >>
    /\ idx = 0
    /\ success_count = 0
    /\ error_count = 0
    /\ skipped_count = 0
    /\ outcomes = << >>
    /\ calls = << >>
    /\ output_dir = [exists |-> FALSE, files |-> {}]
    /\ pc = "start"
    /\ exit_status = -1
    /\ first_run = NoRun

---------------------------------------------------------------------------
(* The runs of the three scripts: steps *)

\* sys.exit(status), and the exit of argparse's parser.error
Exit(status) ==
    /\ pc' = "exit"
    /\ exit_status' = status
    /\ UNCHANGED <<media_files, idx, success_count, error_count,
                   skipped_count, outcomes, calls, output_dir>>

\* An exception leaves main(): the traceback is printed, the status is 1
Crash ==
    /\ pc' = "crashed"
    /\ exit_status' = 1
    /\ UNCHANGED <<media_files, idx, success_count, error_count,
                   skipped_count, outcomes, calls, output_dir>>

\* output_dir.mkdir(exist_ok=True), the media files found, the counters
\* zeroed: the loop is entered
EnterLoop(found) ==
    /\ output_dir' = [output_dir EXCEPT !.exists = TRUE]
    /\ media_files' = found
    /\ idx' = 0
    /\ success_count' = 0
    /\ error_count' = 0
    /\ skipped_count' = 0
    /\ pc' = "loop"
    /\ UNCHANGED <<outcomes, calls, exit_status>>

\* ffmpeg without -y: it refuses to write over a file of the output
\* subdirectory
ffmpeg_runs_no_overwrite(name, files, write_ok) ==
    write_ok /\ ~\E f \in files : f.name = name

\* Whether the run of ffmpeg that writes the file returns 0. The command
\* has -y: a file of the same name in the output subdirectory is written
\* over, so the files already there do not count.
ffmpeg_runs(name, files, write_ok) == write_ok

\* The collaborators are deterministic: a call the earlier run made for
\* the file gets the answer it got then (the text and the status of a
\* probe, whether a copy or a write succeeds, what a failed ffmpeg leaves),
\* except for the operations of first_run.free
same_answers(name, probe, probe_ok, copy_ok, write_ok, partial) ==
    \A i \in 1..Len(first_run.calls) :
        LET c == first_run.calls[i]
        IN  c.name = name =>
              /\ (c.op = "probe" /\ "probe" \notin first_run.free) =>
                    (probe = c.out /\ probe_ok = (c.status = 0))
              /\ c.op = "copy" => copy_ok = (c.status = 0)
              /\ c.op = "write" =>
                    /\ write_ok = (c.status = 0)
                    /\ c.status # 0 =>
                          partial = (\E f \in first_run.files : f.name = name)

\* The counters with both the success and the error counted on an error
count_outcome_mut(c, outcome) ==
    [success |-> c.success + (IF outcome \in {"success", "error"} THEN 1 ELSE 0),
     error |-> c.error + (IF outcome = "error" THEN 1 ELSE 0),
     skipped |-> c.skipped + (IF outcome = "skipped" THEN 1 ELSE 0)]

\* "success_count += 1" after the call, "error_count += 1" in the except
\* clause, "skipped_count += 1" before the continue
count_outcome(c, outcome) ==
    [success |-> c.success + (IF outcome = "success" THEN 1 ELSE 0),
     error |-> c.error + (IF outcome = "error" THEN 1 ELSE 0),
     skipped |-> c.skipped + (IF outcome = "skipped" THEN 1 ELSE 0)]

\* One iteration of the loop ends: r is what the loop body did
EndIteration(r) ==
    LET c == count_outcome([success |-> success_count, error |-> error_count,
                            skipped |-> skipped_count], r.outcome)
    IN  /\ success_count' = c.success
        /\ error_count' = c.error
        /\ skipped_count' = c.skipped
        /\ outcomes' = Append(outcomes, r.outcome)
        /\ calls' = calls \o r.calls
        /\ output_dir' = [output_dir EXCEPT !.files = put_files(@, r.puts)]
        /\ idx' = idx + 1
        /\ UNCHANGED <<media_files, pc, exit_status>>

\* The summary is printed and main() returns
Summary ==
    /\ pc = "loop"
    /\ idx = Len(media_files)
    /\ pc' = "done"
    /\ exit_status' = 0
    /\ UNCHANGED <<media_files, idx, success_count, error_count,
                   skipped_count, outcomes, calls, output_dir>>

\* set_creation_date_from_filename.main(), up to the loop
scd_preflight ==
    /\ script = "scd"
    /\ pc = "start"
    /\ IF args.argc # 2 THEN Exit(1)
       ELSE IF ~env.exiftool THEN Exit(1)
       ELSE IF env.dir_kind # "dir" THEN Exit(1)
       ELSE LET found == find_media("scd", env.listing, env.exiftool)
            IN  IF found = << >>
                THEN /\ pc' = "exit"
                     /\ exit_status' = 0
                     /\ output_dir' = [output_dir EXCEPT !.exists = TRUE]
                     /\ UNCHANGED <<media_files, idx, success_count,
                                    error_count, skipped_count, outcomes,
                                    calls>>
                ELSE EnterLoop(found)
    /\ UNCHANGED <<fn_in, fn_out, fn_pc, script, args, env, first_run>>

\* set_creation_date_from_filename.main(): one iteration of the loop
scd_iteration ==
    /\ script = "scd"
    /\ pc = "loop"
    /\ idx < Len(media_files)
    /\ LET f == media_files[idx + 1]
           creation_date == extract_date_from_filename(f.name)
       IN  IF creation_date = ValueError THEN Crash
           ELSE \E p \in ProbeAnswers, copy_ok \in BOOLEAN,
                   write_ok \in BOOLEAN :
                   /\ same_answers(f.name, p.out, p.ok, copy_ok, write_ok,
                                   FALSE)
                   /\ EndIteration(scd_file_with_date(f, creation_date,
                                        p.out, p.ok, copy_ok, write_ok))
    /\ UNCHANGED <<fn_in, fn_out, fn_pc, script, args, env, first_run>>

\* set_creation_date_from_filename.main(): after the loop
scd_summary ==
    /\ script = "scd"
    /\ Summary
    /\ UNCHANGED <<fn_in, fn_out, fn_pc, script, args, env, first_run>>

\* set_video_date_from_filename.main(), up to the loop
svd_preflight ==
    /\ script = "svd"
    /\ pc = "start"
    /\ IF args.argc # 2 THEN Exit(1)
       ELSE IF env.dir_kind # "dir" THEN Exit(1)
       ELSE LET found == find_media("svd", env.listing, env.exiftool)
            IN  IF found = << >>
                THEN /\ pc' = "exit"
                     /\ exit_status' = 0
                     /\ output_dir' = [output_dir EXCEPT !.exists = TRUE]
                     /\ UNCHANGED <<media_files, idx, success_count,
                                    error_count, skipped_count, outcomes,
                                    calls>>
                ELSE EnterLoop(found)
    /\ UNCHANGED <<fn_in, fn_out, fn_pc, script, args, env, first_run>>

\* set_video_date_from_filename.main(): one iteration of the loop
svd_iteration ==
    /\ script = "svd"
    /\ pc = "loop"
    /\ idx < Len(media_files)
    /\ LET f == media_files[idx + 1]
           creation_date == video_extract_date_from_filename(f.name)
       IN  IF creation_date = ValueError THEN Crash
           ELSE \E write_ok \in BOOLEAN, partial \in BOOLEAN :
                   /\ same_answers(f.name, << >>, TRUE, TRUE, write_ok, partial)
                   /\ EndIteration(svd_file_with_date(f, creation_date,
                                        ffmpeg_runs(f.name, output_dir.files,
                                                    write_ok),
                                        partial))
    /\ UNCHANGED <<fn_in, fn_out, fn_pc, script, args, env, first_run>>

\* set_video_date_from_filename.main(): after the loop
svd_summary ==
    /\ script = "svd"
    /\ Summary
    /\ UNCHANGED <<fn_in, fn_out, fn_pc, script, args, env, first_run>>

\* change_shot_date: parser.parse_args(). The required group holds
\* --set-date alone: without it the parser reports an error, status 2.
csd_parse_args ==
    /\ script = "csd"
    /\ pc = "start"
    /\ IF ~args.set_date_given THEN Exit(2)
       ELSE /\ pc' = "validate"
            /\ UNCHANGED <<media_files, idx, success_count, error_count,
                           skipped_count, outcomes, calls, output_dir,
                           exit_status>>
    /\ UNCHANGED <<fn_in, fn_out, fn_pc, script, args, env, first_run>>

\* change_shot_date.validate_arguments(args)
csd_validate_arguments ==
    /\ script = "csd"
    /\ pc = "validate"
    /\ IF use_exact_date(args) /\ use_offset(args) THEN Exit(1)
       ELSE IF ~use_exact_date(args) /\ ~use_offset(args) THEN Exit(1)
       ELSE IF use_exact_date(args) /\ exact_date(args) = ValueError
       THEN Exit(1)
       ELSE IF env.dir_kind # "dir" THEN Exit(1)
       ELSE /\ pc' = "enumerate"
            /\ UNCHANGED <<media_files, idx, success_count, error_count,
                           skipped_count, outcomes, calls, output_dir,
                           exit_status>>
    /\ UNCHANGED <<fn_in, fn_out, fn_pc, script, args, env, first_run>>

\* change_shot_date.main(), from the check for exiftool up to the loop
csd_enumerate ==
    /\ script = "csd"
    /\ pc = "enumerate"
    /\ LET found == find_media("csd", env.listing, env.exiftool)
       IN  IF found = << >> THEN Exit(1) ELSE EnterLoop(found)
    /\ UNCHANGED <<fn_in, fn_out, fn_pc, script, args, env, first_run>>

\* change_shot_date.main(): one iteration of the loop
csd_iteration ==
    /\ script = "csd"
    /\ pc = "loop"
    /\ idx < Len(media_files)
    /\ LET f == media_files[idx + 1]
       IN  \E probe \in Probes(f), probe_ok \in BOOLEAN, copy_ok \in BOOLEAN,
              write_ok \in BOOLEAN, partial \in BOOLEAN :
               /\ same_answers(f.name, probe, probe_ok, copy_ok, write_ok,
                               partial)
               /\ EndIteration(csd_file(f, use_exact_date(args),
                                     IF use_exact_date(args)
                                     THEN exact_date(args) ELSE NoneValue,
                                     args, probe, probe_ok, copy_ok,
                                     IF f.media_type = "video"
                                     THEN ffmpeg_runs(f.name, output_dir.files,
                                                      write_ok)
                                     ELSE write_ok,
                                     partial))
    /\ UNCHANGED <<fn_in, fn_out, fn_pc, script, args, env, first_run>>

\* change_shot_date.main(): after the loop
csd_summary ==
    /\ script = "csd"
    /\ Summary
    /\ UNCHANGED <<fn_in, fn_out, fn_pc, script, args, env, first_run>>

Next ==
    \/ scd_preflight
    \/ scd_iteration
    \/ scd_summary
    \/ svd_preflight
    \/ svd_iteration
    \/ svd_summary
    \/ csd_parse_args
    \/ csd_validate_arguments
    \/ csd_enumerate
    \/ csd_iteration
    \/ csd_summary

Spec == Init /\ [][Next]_vars

---------------------------------------------------------------------------
(* change_shot_date in offset mode.  parser.parse_args() lets no command
   line without --set-date through (csd_parse_args), so no run that starts
   at main() gets to the offset branch of process_video and process_photo.
   These runs start at the loop of main() with what validate_arguments
   returns for offsets alone (use_exact_date False): they show what the
   loop and the two functions do in that mode. *)

\* The command lines of offsets alone
OffsetArgs == { a \in ShotDateArgs : ~use_exact_date(a) /\ use_offset(a) }

\* The most entries of a directory in offset mode
MaxOffsetFiles == 2

\* The entries tried in offset mode: two videos and a photo
OffsetPool ==
    { e \in EntryPool :
        /\ e.is_file
        /\ suffix(e.name) \in {<<".","m","p","4">>, <<".","m","o","v">>,
                               <<".","j","p","g">>}
        /\ extract_date_from_filename(e.name) # ValueError }

\* The directories tried in offset mode: at least one media file
OffsetEnvs ==
    { e \in Envs :
        /\ e.dir_kind = "dir"
        /\ Len(e.listing) <= MaxOffsetFiles
        /\ Range(e.listing) \subseteq OffsetPool
        /\ find_media("csd", e.listing, e.exiftool) # << >> }

InitOffset ==
    /\ fn_in = << >>
    /\ fn_out = NoneValue
    /\ fn_pc = "idle"
    /\ script = "csd"
    /\ args \in OffsetArgs
    /\ env \in OffsetEnvs
    /\ media_files = find_media("csd", env.listing, env.exiftool)
    /\ idx = 0
    /\ success_count = 0
    /\ error_count = 0
    /\ skipped_count = 0
    /\ outcomes = << >>
    /\ calls = << >>
    /\ output_dir = [exists |-> TRUE, files |-> {}]
    /\ pc = "loop"
    /\ exit_status = -1
    /\ first_run = NoRun

NextOffset ==
    \/ csd_iteration
    \/ csd_summary

SpecOffset == InitOffset /\ [][NextOffset]_vars

---------------------------------------------------------------------------
(* Runs over a directory of one file, its extension in every casing *)

\* The letters of the extensions of the three scripts, and of ".txt"
Letters ==
    {"a","c","e","g","h","i","j","k","m","n","o","p","t","v","x"}

\* The capital of a letter
Capital(c) ==
    CASE c = "a" -> "A" [] c = "c" -> "C" [] c = "e" -> "E" [] c = "g" -> "G"
      [] c = "h" -> "H" [] c = "i" -> "I" [] c = "j" -> "J" [] c = "k" -> "K"
      [] c = "m" -> "M" [] c = "n" -> "N" [] c = "o" -> "O" [] c = "p" -> "P"
      [] c = "t" -> "T" [] c = "v" -> "V" [] c = "x" -> "X" [] OTHER -> c

\* The text w with each letter in lower or in upper case
RECURSIVE Casings(_)
Casings(w) ==
    IF w = << >> THEN { << >> }
    ELSE { <<c>> \o rest : c \in {Head(w), Capital(Head(w))},
                           rest \in Casings(Tail(w)) }

\* A video extension, a photo extension of both photo scripts, one of
\* set_creation_date_from_filename alone, and one of no script
CasedExtensions ==
    UNION { Casings(e) : e \in { <<".","m","p","4">>, <<".","j","p","g">>,
                                 <<".","h","e","i","c">>, <<".","t","x","t">> } }

CaseEnvs ==
    { [exiftool |-> x, dir_kind |-> "dir",
       listing |-> <<Entry(<<"a">> \o e, TRUE)>>] :
        x \in BOOLEAN, e \in CasedExtensions }

InitCase ==
    /\ fn_in = << >>
    /\ fn_out = NoneValue
    /\ fn_pc = "idle"
    /\ script \in {"scd", "svd", "csd"}
    /\ args \in IF script = "csd" THEN ShotDateArgs ELSE FilenameArgs
    /\ env \in CaseEnvs
    /\ media_files = << >>
    /\ idx = 0
    /\ success_count = 0
    /\ error_count = 0
    /\ skipped_count = 0
    /\ outcomes = << >>
    /\ calls = << >>
    /\ output_dir = [exists |-> FALSE, files |-> {}]
    /\ pc = "start"
    /\ exit_status = -1
    /\ first_run = NoRun

SpecCase == InitCase /\ [][Next]_vars

---------------------------------------------------------------------------
(* The same script run a second time over the same directory *)

\* The most entries of a directory that is processed twice
MaxRerunFiles == 2

\* The entry of the output subdirectory in the listing of the directory
output_entry(scr) ==
    Entry(IF scr = "csd" THEN <<"u","p","d","a","t","e","d">>
          ELSE <<"d","a","t","e","d">>, FALSE)

\* The listing q with the entry e after its first p entries
InsertAt(q, p, e) == SubSeq(q, 1, p) \o <<e>> \o SubSeq(q, p + 1, Len(q))

InitRerun ==
    /\ fn_in = << >>
    /\ fn_out = NoneValue
    /\ fn_pc = "idle"
    /\ script \in {"scd", "svd", "csd"}
    /\ args \in IF script = "csd" THEN ShotDateArgs ELSE FilenameArgs
    /\ env \in { e \in Envs : Len(e.listing) <= MaxRerunFiles }
    /\ media_files = << >>
    /\ idx = 0
    /\ success_count = 0
    /\ error_count = 0
    /\ skipped_count = 0
    /\ outcomes = << >>
    /\ calls = << >>
    /\ output_dir = [exists |-> FALSE, files |-> {}]
    /\ pc = "start"
    /\ exit_status = -1
    /\ first_run = NoRun

\* The run is over and the script is started again with the same command
\* line: what the run did is kept for comparison, the output subdirectory
\* stays as the run left it and, when it was created, is now an entry of
\* the directory, at any place of the listing.
rerun ==
    /\ pc \in {"exit", "done", "crashed"}
    /\ ~first_run.ran
    /\ first_run' = [ran |-> TRUE, free |-> first_run.free,
                     media_files |-> media_files,
                     outcomes |-> outcomes, success_count |-> success_count,
                     error_count |-> error_count,
                     skipped_count |-> skipped_count, calls |-> calls,
                     files |-> output_dir.files, pc |-> pc,
                     exit_status |-> exit_status]
    /\ IF output_dir.exists /\ output_entry(script) \notin Range(env.listing)
       THEN \E p \in 0..Len(env.listing) :
               env' = [env EXCEPT
                          !.listing = InsertAt(@, p, output_entry(script))]
       ELSE env' = env
    /\ media_files' = << >>
    /\ idx' = 0
    /\ success_count' = 0
    /\ error_count' = 0
    /\ skipped_count' = 0
    /\ outcomes' = << >>
    /\ calls' = << >>
    /\ pc' = "start"
    /\ exit_status' = -1
    /\ UNCHANGED <<fn_in, fn_out, fn_pc, script, args, output_dir>>

NextRerun ==
    \/ Next
    \/ rerun

SpecRerun == InitRerun /\ [][NextRerun]_vars

---------------------------------------------------------------------------
(* set_creation_date_from_filename run twice, the probe answering anew *)

\* The most entries of a directory whose files are probed twice
MaxProbeFiles == 2

\* The second run gets the answers of the first from shutil.copy2 and from
\* the exiftool that writes; the exiftool that probes answers freely.
InitProbe ==
    /\ fn_in = << >>
    /\ fn_out = NoneValue
    /\ fn_pc = "idle"
    /\ script = "scd"
    /\ args \in FilenameArgs
    /\ env \in { e \in Envs : Len(e.listing) <= MaxProbeFiles }
    /\ media_files = << >>
    /\ idx = 0
    /\ success_count = 0
    /\ error_count = 0
    /\ skipped_count = 0
    /\ outcomes = << >>
    /\ calls = << >>
    /\ output_dir = [exists |-> FALSE, files |-> {}]
    /\ pc = "start"
    /\ exit_status = -1
    /\ first_run = [NoRun EXCEPT !.free = {"probe"}]

NextProbe ==
    \/ scd_preflight
    \/ scd_iteration
    \/ scd_summary
    \/ rerun

SpecProbe == InitProbe /\ [][NextProbe]_vars

---------------------------------------------------------------------------
(* The two extract_date_from_filename functions on one file name *)

\* Leading text that holds a bracketed tag, with and without a date in it
BracketFragments ==
    { <<"[","2","0","1","6","-","1","2","-","1","9"," ","1","9",".","1","0",".","4","7","]"," ">>,
      <<"[","a"," ","2","0","1","6","-","1","2","-","1","9"," ","1","9",".","1","0",".","4","7"," ","b","]"," ">>,
      <<"[","2","0","1","6","-","1","2","-","1","9"," ","1","9",".","1","0",".","4","7"," ">>,
      <<"2","0","1","6","-","1","2","-","1","9"," ","1","9",".","1","0",".","4","7"," ","[","x","]"," ">>,
      <<"[","x","]"," ","[","y","]"," ">>,
      <<"[","2","0","1","8","-","1","3","-","0","7"," ","1","7",".","5","0",".","4","1","]"," ">> }

BracketSuffixes ==
    { << >>, <<"-","1",".","m","p","4">>, <<" ","P","M",".","m","p","4">> }

AgreeInputs ==
    ExtractInputs \cup
    { p \o d \o s \o t \o x :
        p \in BracketFragments, d \in DateFragments, s \in SepFragments,
        t \in TimeFragments, x \in BracketSuffixes }

\* What the two functions returned for one name
Both(media, video) == [scd |-> media, svd |-> video]

InitAgree ==
    /\ fn_in \in AgreeInputs
    /\ fn_out = Both(NoneValue, NoneValue)
    /\ fn_pc = "call"
    /\ IdleRun

\* set_creation_date_from_filename: extract_date_from_filename(filename)
CallMediaExtract ==
    /\ fn_pc = "call"
    /\ fn_out' = Both(extract_date_from_filename(fn_in), NoneValue)
    /\ fn_pc' = "media"
    /\ UNCHANGED <<fn_in, first_run, script, args, env, media_files, idx,
                   success_count, error_count, skipped_count, outcomes,
                   calls, output_dir, pc, exit_status>>

\* set_video_date_from_filename: extract_date_from_filename(filename)
CallVideoExtract ==
    /\ fn_pc = "media"
    /\ fn_out' = Both(fn_out.scd, video_extract_date_from_filename(fn_in))
    /\ fn_pc' = "both"
    /\ UNCHANGED <<fn_in, first_run, script, args, env, media_files, idx,
                   success_count, error_count, skipped_count, outcomes,
                   calls, output_dir, pc, exit_status>>

NextAgree == CallMediaExtract \/ CallVideoExtract

SpecAgree == InitAgree /\ [][NextAgree]_vars

---------------------------------------------------------------------------
(* compress_video *)

\* compress_video.VIDEO_EXTENSIONS
CV_VIDEO_EXTENSIONS ==
    VIDEO_EXTENSIONS \cup
    { <<".","v","o","b">>, <<".","m","o","d">>, <<".","V","O","B">>,
      <<".","M","O","D">> }

\* Path.stem: the name without its suffix
stem(name) == SubSeq(name, 1, Len(name) - Len(suffix(name)))

\* str() of an integer that is not negative
RECURSIVE str_int(_)
str_int(n) ==
    IF n < 10 THEN <<DigitChar(n)>>
    ELSE str_int(n \div 10) \o <<DigitChar(n % 10)>>

\* f"ff{args.crf}-{args.preset}": the name of the output directory
cv_output_dir(a) == <<"f","f">> \o str_int(a.crf) \o <<"-">> \o a.preset

\* output_name = f"[ff{args.crf}-{args.preset}] {video_file.stem}.mp4"
cv_output_name(a, name) ==
    <<"[">> \o cv_output_dir(a) \o <<"]"," ">> \o stem(name)
        \o <<".","m","p","4">>

\* The comprehension over input_dir.iterdir(): the video files, in order
cv_find_videos(listing) ==
    SelectSeq(listing,
              LAMBDA f : f.is_file /\ suffix(f.name) \in CV_VIDEO_EXTENSIONS)

\* The loop body of main(): ffmpeg converts the file called name into
\* output_file. A missing ffmpeg raises FileNotFoundError, a non-zero status
\* CalledProcessError: both are counted as errors. The file written holds
\* the conversion of the input it is stamped with.
cv_file(a, name, ffmpeg_found, write_ok, partial) ==
    LET out == cv_output_name(a, name)
        write == Call("write", "ffmpeg", name, cv_output_dir(a), out)
    IN  IF ~ffmpeg_found
        THEN [outcome |-> "error", calls |-> <<Failed(write)>>, puts |-> {}]
        ELSE IF ~write_ok
        THEN [outcome |-> "error", calls |-> <<Failed(write)>>,
              puts |-> ffmpeg_leftover(out, partial)]
        ELSE [outcome |-> "success", calls |-> <<write>>,
              puts |-> {Put(out, name)}]

\* The most entries of a directory of videos to compress
MaxVideos == 3

\* The directory entries tried: two videos of one stem, a video with two
\* periods in its name, one with an upper-case extension, a text file and
\* the output directory of an earlier run
VideoPool ==
    { Entry(<<"a",".","m","o","v">>, TRUE),
      Entry(<<"a",".","m","p","4">>, TRUE),
      Entry(<<"a",".","b",".","m","p","4">>, TRUE),
      Entry(<<"b",".","M","K","V">>, TRUE),
      Entry(<<"n","o","t","e","s",".","t","x","t">>, TRUE),
      Entry(<<"f","f","2","3","-","m","e","d","i","u","m">>, FALSE) }

\* The orders input_dir.iterdir() may list up to n distinct entries in
RECURSIVE VideoListings(_)
VideoListings(n) ==
    IF n = 0 THEN { << >> }
    ELSE LET shorter == VideoListings(n - 1)
             longest == { q \in shorter : Len(q) = n - 1 }
         IN  shorter \cup
             { Append(x[1], x[2]) :
                 x \in { y \in longest \X VideoPool : y[2] \notin Range(y[1]) } }

\* The environments: whether ffmpeg is on the PATH, what the directory
\* argument names, and the entries of the directory
CompressEnvs ==
    { e \in [ffmpeg : BOOLEAN, dir_kind : {"missing", "file", "dir"},
             listing : VideoListings(MaxVideos)] :
        e.dir_kind = "dir" \/ e.listing = << >> }

\* The command lines: the directory given or not, --crf and --preset
CompressArgs ==
    [dir_given : BOOLEAN, crf : {23, 5},
     preset : { <<"m","e","d","i","u","m">>, <<"f","a","s","t">> }]

InitCompress ==
    /\ fn_in = << >>
    /\ fn_out = NoneValue
    /\ fn_pc = "idle"
    /\ script = "cv"
    /\ args \in CompressArgs
    /\ env \in CompressEnvs
    /\ media_files = << >>
    /\ idx = 0
    /\ success_count = 0
    /\ error_count = 0
    /\ skipped_count = 0
    /\ outcomes = << >>
    /\ calls = << >>
    /\ output_dir = [exists |-> FALSE, files |-> {}]
    /\ pc = "start"
    /\ exit_status = -1
    /\ first_run = NoRun

\* compress_video.main(): parser.parse_args()
cv_parse_args ==
    /\ script = "cv"
    /\ pc = "start"
    /\ IF ~args.dir_given THEN Exit(2)
       ELSE /\ pc' = "parsed"
            /\ UNCHANGED <<media_files, idx, success_count, error_count,
                           skipped_count, outcomes, calls, output_dir,
                           exit_status>>
    /\ UNCHANGED <<fn_in, fn_out, fn_pc, script, args, env, first_run>>

\* compress_video.main(), from the directory checks up to the loop
cv_preflight ==
    /\ script = "cv"
    /\ pc = "parsed"
    /\ IF env.dir_kind # "dir" THEN Exit(1)
       ELSE LET found == cv_find_videos(env.listing)
            IN  IF found = << >>
                THEN /\ pc' = "exit"
                     /\ exit_status' = 0
                     /\ output_dir' = [output_dir EXCEPT !.exists = TRUE]
                     /\ UNCHANGED <<media_files, idx, success_count,
                                    error_count, skipped_count, outcomes,
                                    calls>>
                ELSE EnterLoop(found)
    /\ UNCHANGED <<fn_in, fn_out, fn_pc, script, args, env, first_run>>

\* compress_video.main(): one iteration of the loop
cv_iteration ==
    /\ script = "cv"
    /\ pc = "loop"
    /\ idx < Len(media_files)
    /\ \E write_ok \in BOOLEAN, partial \in BOOLEAN :
          EndIteration(cv_file(args, media_files[idx + 1].name, env.ffmpeg,
                               write_ok, partial))
    /\ UNCHANGED <<fn_in, fn_out, fn_pc, script, args, env, first_run>>

\* compress_video.main(): after the loop
cv_summary ==
    /\ script = "cv"
    /\ Summary
    /\ UNCHANGED <<fn_in, fn_out, fn_pc, script, args, env, first_run>>

NextCompress ==
    \/ cv_parse_args
    \/ cv_preflight
    \/ cv_iteration
    \/ cv_summary

SpecCompress == InitCompress /\ [][NextCompress]_vars

---------------------------------------------------------------------------
(* Definitions the claims about the extractor are stated with *)

UpperChar(c) ==
    CASE c = "a" -> "A" [] c = "p" -> "P" [] c = "m" -> "M" [] OTHER -> c

\* A whitespace character at p, then AM or PM in any casing
MarkerAt(s, p) ==
    /\ p + 2 <= Len(s)
    /\ s[p] \in Whitespace
    /\ UpperChar(s[p + 1]) \in {"A", "P"}
    /\ UpperChar(s[p + 2]) = "M"

\* The text after position e contains whitespace plus AM/PM somewhere
MarkerAfter(s, e) == \E p \in (e + 1)..Len(s) : MarkerAt(s, p)

\* The text after position e starts with whitespace plus AM/PM
MarkerRightAfter(s, e) ==
    \E p \in (e + 1)..Len(s) :
        /\ MarkerAt(s, p)
        /\ \A q \in (e + 1)..p : s[q] \in Whitespace

\* The decimal number written at positions a..b
RECURSIVE Written(_, _, _)
Written(s, a, b) ==
    IF b < a THEN 0 ELSE Written(s, a, b - 1) * 10 + DigitVal(s[b])

ValidFields(r) ==
    /\ r.year >= 1
    /\ r.month \in 1..12
    /\ r.day \in 1..days_in_month(r.year, r.month)
    /\ r.hour \in 0..23
    /\ r.minute \in 0..59
    /\ r.second \in 0..59

\* The fields of the Pattern A match that starts at i, as written
PatternAReading(s, i) ==
    LET j == WsRunEnd(s, i + 10)
    IN  [tag |-> "datetime",
         year |-> Written(s, i, i + 3), month |-> Written(s, i + 5, i + 6),
         day |-> Written(s, i + 8, i + 9), hour |-> Written(s, j, j + 1),
         minute |-> Written(s, j + 3, j + 4), second |-> Written(s, j + 6, j + 7)]

\* The 24-hour value of written hour h of 1..12 with marker ampm
Hour24(h, ampm) ==
    IF h = 12 THEN (IF ampm = "AM" THEN 0 ELSE 12)
    ELSE IF ampm = "AM" THEN h ELSE h + 12

\* The fields of the first Pattern B match of s, the hour converted
PatternBReading(s) ==
    LET g == pattern2_groups(s, pattern2_search(s))
    IN  [tag |-> "datetime", year |-> g.year, month |-> g.month, day |-> g.day,
         hour |-> Hour24(g.hour, g.ampm), minute |-> g.minute,
         second |-> g.second]

Stamp(y, mo, d, h, mi, sec) ==
    [tag |-> "datetime", year |-> y, month |-> mo, day |-> d,
     hour |-> h, minute |-> mi, second |-> sec]

---------------------------------------------------------------------------
(* Claims *)

TripVideo ==
    <<"[","t","r","i","p","]"," ","2","0","1","8","-","0","4","-","0","7"," ","1","7",".","5","0",".","4","1","-","1",".","m","p","4">>

\* The run is over: by sys.exit, by the return of main(), by an exception
Ended == pc \in {"exit", "done", "crashed"}

\* C1: no failure raised while processing one file ends the batch: once
\* the loop is entered, every file of media_files gets an outcome and the
\* run ends with the summary printed.
C1_NoFileFailureEndsBatch ==
    (media_files # << >> /\ pc # "loop")
        => (pc = "done" /\ Len(outcomes) = Len(media_files))

\* The number of files of outcomes counted as kind
Count(kind) == Cardinality({ k \in 1..Len(outcomes) : outcomes[k] = kind })

\* C2: after each iteration of the loop success_count + skipped_count +
\* error_count is the number of files processed so far, every processed
\* file has incremented exactly one counter, and when the summary is
\* printed the sum is the number of files of media_files.
C2_CountsSum ==
    /\ pc \in {"loop", "done", "crashed"} =>
          /\ success_count + skipped_count + error_count = idx
          /\ Len(outcomes) = idx
          /\ success_count = Count("success")
          /\ skipped_count = Count("skipped")
          /\ error_count = Count("error")
    /\ pc = "done" =>
          success_count + skipped_count + error_count = Len(media_files)

\* A run of three files ended with one success, one skip and one error
C2_Witness ==
    /\ pc = "done"
    /\ Len(media_files) = 3
    /\ success_count = 1
    /\ skipped_count = 1
    /\ error_count = 1

\* The name matches none of the date patterns of the script
NoPattern(scr, name) ==
    IF scr = "scd"
    THEN ~(\E i \in 1..Len(name) : pattern1_at(name, i) \/ pattern2_at(name, i))
    ELSE ~(\E i \in 1..Len(name) : video_pattern_at(name, i))

\* C3: in the two filename scripts, a file whose name matches none of the
\* date patterns has None extracted, is counted as skipped once its
\* iteration is over, has no probe, copy or write issued and no output
\* file, and does not end the run: it is never the file an exception
\* escapes from, and after it the loop is at the next file.
C3_NoPatternSkipped ==
    script \in {"scd", "svd"} =>
        \A k \in 1..Len(media_files) :
            NoPattern(script, media_files[k].name) =>
                /\ k <= idx => outcomes[k] = "skipped"
                /\ \A i \in 1..Len(calls) : calls[i].name # media_files[k].name
                /\ \A f \in output_dir.files : f.name # media_files[k].name
                /\ pc = "crashed" => idx + 1 # k
                /\ (k = idx /\ k < Len(media_files))
                      => pc \in {"loop", "crashed"}

\* A file without a date was skipped and the next file was then processed
C3_Witness ==
    /\ script = "scd"
    /\ pc = "done"
    /\ Len(media_files) = 2
    /\ NoPattern("scd", media_files[1].name)
    /\ outcomes = <<"skipped", "success">>

\* C4, as stated: for every file name with a Pattern A match that is not
\* immediately followed by whitespace plus AM/PM (and whose fields are a
\* valid date and time), extract returns the match's literal 24-hour
\* reading.
C4_Original ==
    LET i == pattern1_search(fn_in)
        r == PatternAReading(fn_in, i)
    IN  (/\ fn_pc = "returned"
         /\ i > 0
         /\ ~MarkerRightAfter(fn_in, pattern1_end(fn_in, i))
         /\ ValidFields(r))
        => fn_out = r

\* C4, amended: for every file name whose first Pattern A match is followed
\* nowhere in the rest of the name by whitespace plus AM/PM (any casing, as
\* a substring), extract returns the literal 24-hour reading of that first
\* match when its fields are a valid date and time, and date construction
\* raises ValueError when they are not.
C4_PatternA ==
    LET i == pattern1_search(fn_in)
        r == PatternAReading(fn_in, i)
    IN  (/\ fn_pc = "returned"
         /\ i > 0
         /\ ~MarkerAfter(fn_in, pattern1_end(fn_in, i)))
        => fn_out = IF ValidFields(r) THEN r ELSE ValueError

\* "[trip] 2018-04-07 17.50.41-1.mp4" was read as 2018-04-07 17:50:41
C4_Witness ==
    /\ fn_pc = "returned"
    /\ fn_in = <<"[","t","r","i","p","]"," ","2","0","1","8","-","0","4","-","0","7"," ","1","7",".","5","0",".","4","1","-","1",".","m","p","4">>
    /\ fn_out = Stamp(2018, 4, 7, 17, 50, 41)

\* C5: whenever the first Pattern A match of a file name is followed by text
\* that contains whitespace plus AM/PM (any casing), extract returns what
\* Pattern B yields on the whole name: the 12-hour reading of its first
\* match, converted (ValueError when its fields are no valid date and
\* time), and None when Pattern B does not match; and the WhatsApp name
\* resolves to 23:08:35.
C5_Disambiguation ==
    LET i == pattern1_search(fn_in)
        b == PatternBReading(fn_in)
    IN  /\ (/\ fn_pc = "returned"
            /\ i > 0
            /\ MarkerAfter(fn_in, pattern1_end(fn_in, i)))
           => fn_out = IF pattern2_search(fn_in) = 0 THEN NoneValue
                       ELSE IF ValidFields(b) THEN b ELSE ValueError
        /\ (/\ fn_pc = "returned"
            /\ fn_in = <<"W","h","a","t","s","A","p","p"," ","V","i","d","e","o"," ","2","0","2","5","-","1","2","-","3","1"," ","a","t"," ","1","1",".","0","8",".","3","5"," ","P","M",".","m","p","4">>)
           => fn_out = Stamp(2025, 12, 31, 23, 8, 35)

\* "2016-12-19 19.10.47 2025-12-31 at 11.08.35 PM.mp4": Pattern A matched,
\* a marker follows, and the 12-hour reading 23:08:35 was returned
C5_Witness ==
    /\ fn_pc = "returned"
    /\ fn_in = <<"2","0","1","6","-","1","2","-","1","9"," ","1","9",".","1","0",".","4","7"," ","2","0","2","5","-","1","2","-","3","1"," ","a","t"," ","1","1",".","0","8",".","3","5"," ","P","M",".","m","p","4">>
    /\ pattern1_search(fn_in) = 1
    /\ fn_out = Stamp(2025, 12, 31, 23, 8, 35)

\* C6, as stated: for every file name matching Pattern B with written hour
\* 1..12 (and valid date, minute and second), extract returns the date,
\* minute and second as written and the hour 0 for 12 AM, 12 for 12 PM, h
\* for AM and h + 12 for PM, an hour of 0..23.
C6_Original ==
    LET j == pattern2_search(fn_in)
        g == pattern2_groups(fn_in, j)
        b == PatternBReading(fn_in)
    IN  (/\ fn_pc = "returned"
         /\ j > 0
         /\ g.hour \in 1..12
         /\ ValidFields(b))
        => (fn_out = b /\ fn_out.hour \in 0..23)

\* C6, amended: the same, for the file names on which Pattern B is tried:
\* those with no Pattern A match, or whose first Pattern A match is followed
\* by whitespace plus AM/PM.
C6_PatternB ==
    LET i == pattern1_search(fn_in)
        j == pattern2_search(fn_in)
        g == pattern2_groups(fn_in, j)
        b == PatternBReading(fn_in)
    IN  (/\ fn_pc = "returned"
         /\ j > 0
         /\ g.hour \in 1..12
         /\ ValidFields(b)
         /\ (i = 0 \/ MarkerAfter(fn_in, pattern1_end(fn_in, i))))
        => (fn_out = b /\ fn_out.hour \in 0..23)

\* "2025-12-31 at 12.08.35 AM.mp4" was read as 00:08:35
C6_Witness ==
    /\ fn_pc = "returned"
    /\ fn_in = <<"2","0","2","5","-","1","2","-","3","1"," ","a","t"," ","1","2",".","0","8",".","3","5"," ","A","M",".","m","p","4">>
    /\ fn_out = Stamp(2025, 12, 31, 0, 8, 35)

\* The wall-clock times the start of daylight saving time skipped:
\* 2018-11-04 00:00:00 to 00:59:59 in America/Sao_Paulo
InSpringGap(c) == c.year = 2018 /\ c.month = 11 /\ c.day = 4 /\ c.hour = 0

\* The wall-clock times the end of daylight saving time repeated:
\* 2019-02-16 23:00:00 to 23:59:59
InFallOverlap(c) == c.year = 2019 /\ c.month = 2 /\ c.day = 16 /\ c.hour = 23

\* C7, as stated: every civil time normalised to UTC and converted back
\* into the zone is reproduced exactly.
C7_Original == fn_pc = "back" => fn_out = fn_in

\* C7, amended: the round trip reproduces every civil time that exists in
\* the zone, those of the fall-back overlap included; a civil time inside
\* the spring-forward gap comes back one hour later.
C7_RoundTrip ==
    fn_pc = "back" =>
        IF InSpringGap(fn_in)
        THEN fn_out = [fn_in EXCEPT !.hour = 1]
        ELSE fn_out = fn_in

\* 2019-02-16 23:30:00, inside the overlap, came back unchanged
C7_Witness ==
    /\ fn_pc = "back"
    /\ InFallOverlap(fn_in)
    /\ fn_in.minute = 30
    /\ fn_out = fn_in

\* The command line selects no mode, or both
NoMode(a) == ~a.set_date_given /\ a.days = 0 /\ a.hours = 0 /\ a.minutes = 0

BothModes(a) ==
    a.set_date_given /\ (a.days # 0 \/ a.hours # 0 \/ a.minutes # 0)

\* C8: a run of change_shot_date that selects no mode or both modes ends
\* with exit status 1, and no file is enumerated, probed, copied or written
\* and the output directory is not created.
C8_ModeValidation ==
    (script = "csd" /\ (NoMode(args) \/ BothModes(args))) =>
        /\ media_files = << >>
        /\ calls = << >>
        /\ ~output_dir.exists
        /\ pc \in {"start", "validate", "exit"}
        /\ pc = "exit" => exit_status = 1

\* C9: a run of change_shot_date with offset flags only, over a directory
\* that holds one video, is accepted by validation and ends with the
\* summary; with --days 1 alone and the probed time
\* 2022-01-01T00:00:00.000000Z, a successful run leaves the file in
\* updated/ with the time 2022-01-02T00:00:00Z and counts 1 success, 0
\* skipped, 0 errors.
C9_OffsetRun ==
    (/\ script = "csd"
     /\ ~args.set_date_given
     /\ (args.days # 0 \/ args.hours # 0 \/ args.minutes # 0)
     /\ env.dir_kind = "dir"
     /\ env.listing = <<Entry(TripVideo, TRUE)>>
     /\ Ended)
    => /\ pc = "done"
       /\ exit_status = 0
       /\ success_count + error_count = 1
       /\ skipped_count = 0
       /\ (success_count = 1 /\ args.days = 1 /\ args.hours = 0
              /\ args.minutes = 0)
             => output_dir.files =
                    {Put(TripVideo,
                         <<"2","0","2","2","-","0","1","-","0","2","T","0","0",":","0","0",":","0","0","Z">>)}

\* The text handed to the write collaborator for the --set-date text t:
\* ffmpeg gets YYYY-MM-DDTHH:MM:SSZ, exiftool YYYY:MM:DD HH:MM:SS
ExpectedExact(tool, t) ==
    IF tool = "ffmpeg"
    THEN SubSeq(t, 1, 10) \o <<"T">> \o SubSeq(t, 12, 19) \o <<"Z">>
    ELSE SubSeq(t, 1, 4) \o <<":">> \o SubSeq(t, 6, 7) \o <<":">>
             \o SubSeq(t, 9, 10) \o <<" ">> \o SubSeq(t, 12, 19)

\* C10: in exact-date mode no probe call is issued for any file, video or
\* photo, and every write call is handed the date and time of --set-date
\* as given, so that all the files of the run get the same target.
C10_ExactDate ==
    (script = "csd" /\ args.set_date_given) =>
        /\ \A i \in 1..Len(calls) :
              /\ calls[i].op # "probe"
              /\ calls[i].op = "write" =>
                    calls[i].value = ExpectedExact(calls[i].tool, args.set_date)
        /\ \A f \in output_dir.files :
              f.stamp \in {Original, <<"p","a","r","t","i","a","l">>,
                           ExpectedExact("ffmpeg", args.set_date),
                           ExpectedExact("exiftool", args.set_date)}

\* Three files, videos and photos, were written in exact-date mode
C10_Witness ==
    /\ script = "csd"
    /\ args.set_date_given
    /\ pc = "done"
    /\ success_count = 3
    /\ \E i \in 1..Len(calls) : calls[i].op = "write" /\ calls[i].tool = "ffmpeg"
    /\ \E i \in 1..Len(calls) : calls[i].op = "write" /\ calls[i].tool = "exiftool"


---------------------------------------------------------------------------
(* Definitions the claims about the steps of one file are stated with *)

\* The positions in calls of the calls issued for file k of media_files
CallsOf(k) == { i \in 1..Len(calls) : calls[i].name = media_files[k].name }

\* The probe of file k printed no timestamp, or one its format refuses
MissingMetadata(k) ==
    \E i \in CallsOf(k) :
        /\ calls[i].op = "probe"
        /\ \/ calls[i].out = << >>
           \/ /\ media_files[k].media_type = "video"
              /\ strptime_ffmpeg(calls[i].out) = ValueError
           \/ /\ media_files[k].media_type = "photo"
              /\ strptime_exif(calls[i].out) = ValueError

\* No copy and no write was issued for file k, and the output subdirectory
\* holds no file of its name
NothingWritten(k) ==
    /\ \A i \in CallsOf(k) : calls[i].op = "probe"
    /\ \A f \in output_dir.files : f.name # media_files[k].name

ToolFailed(k, ops) ==
    \E i \in CallsOf(k) : calls[i].op \in ops /\ calls[i].status # 0

\* C12: a file whose probe call or write call returned a non-zero status
\* has the outcome error: the error count is incremented and the success
\* count is not, and the loop goes on with the next file.
C12_ToolFailureIsError ==
    pc \in {"loop", "done", "crashed"} =>
        /\ \A k \in 1..idx :
              ToolFailed(k, {"probe", "write"}) => outcomes[k] = "error"
        /\ success_count = Count("success")
        /\ error_count = Count("error")


\* The subdirectory of the source directory the script writes into
OutputSubdir == IF script = "csd" THEN "updated" ELSE "dated"

\* C13: whatever the outcomes of the files processed so far, every copy
\* and every metadata write was issued on a path inside the output
\* subdirectory (updated/ or dated/), a probe writes no file, and the
\* files left are in the output subdirectory under the names of their
\* sources: no call writes a file of the source directory.
C13_OriginalsUntouched ==
    /\ \A i \in 1..Len(calls) :
          /\ calls[i].op \in {"copy", "write"} => calls[i].dir = OutputSubdir
          /\ calls[i].op = "probe" => calls[i].dir = ""
          /\ calls[i].op \in {"probe", "copy", "write"}
    /\ \A f \in output_dir.files :
          \E k \in 1..idx :
              /\ f.name = media_files[k].name
              /\ \E i \in CallsOf(k) : calls[i].op \in {"copy", "write"}
    /\ (output_dir.files # {}) => output_dir.exists

\* A run of set_creation_date_from_filename ended after a file was copied
\* and written and another was copied and failed to be written
C13_Witness ==
    /\ script = "scd"
    /\ pc = "done"
    /\ \E i, j \in 1..Len(calls) :
          /\ calls[i].op = "write" /\ calls[i].status = 0
          /\ calls[j].op = "write" /\ calls[j].status # 0
    /\ \E i \in 1..Len(calls) : calls[i].op = "copy"


---------------------------------------------------------------------------
(* Definitions the claims about enumeration and exit are stated with *)

\* The text w in lower case
LowerCase(w) ==
    [i \in 1..Len(w) |->
        IF \E c \in Letters : Capital(c) = w[i]
        THEN CHOOSE c \in Letters : Capital(c) = w[i]
        ELSE w[i]]

\* The media type of a directory entry when its extension is compared
\* without regard to case
ExpectedType(f) ==
    LET e == LowerCase(suffix(f.name))
    IN  IF ~f.is_file THEN "none"
        ELSE IF e \in VIDEO_EXTENSIONS THEN "video"
        ELSE IF script = "scd" /\ e \in PHOTO_EXTENSIONS THEN "photo"
        ELSE IF script = "csd" /\ e \in CSD_PHOTO_EXTENSIONS /\ env.exiftool
        THEN "photo"
        ELSE "none"

\* The entries of the listing that have a media type, in order
RECURSIVE ExpectedMedia(_)
ExpectedMedia(listing) ==
    IF listing = << >> THEN << >>
    ELSE LET f == Head(listing)
             rest == ExpectedMedia(Tail(listing))
         IN  IF ExpectedType(f) = "none" THEN rest
             ELSE <<[media_type |-> ExpectedType(f), name |-> f.name]>> \o rest

\* The command line is one the script accepts; with a directory and, for
\* set_creation_date_from_filename, exiftool, the checks made before the
\* directory is listed pass
CommandLineOk ==
    /\ script \in {"scd", "svd"} => args.argc = 2
    /\ script = "csd" =>
          /\ args.set_date_given
          /\ ~use_offset(args)
          /\ parse_iso_date(args.set_date) # ValueError

PreflightOk ==
    /\ CommandLineOk
    /\ env.dir_kind = "dir"
    /\ script = "scd" => env.exiftool

\* The directory has been listed: the run is in the loop or past it, or it
\* ended for want of media files
Enumerated == pc \in {"loop", "done", "crashed"} \/ (pc = "exit" /\ PreflightOk)

\* C14: the classification is case-insensitive: once the directory is
\* listed, the batch holds every file whose extension is a supported video
\* or photo extension in any mix of upper and lower case, as Video or
\* Photo, and no other file.
C14_CaseInsensitive ==
    Enumerated =>
        IF ExpectedMedia(env.listing) = << >>
        THEN pc = "exit" /\ media_files = << >>
        ELSE media_files = ExpectedMedia(env.listing)


\* The videos of the listing, and the photos of the photo-capable script,
\* by the extension sets of the script
IsVideoEntry(f) == f.is_file /\ suffix(f.name) \in VIDEO_EXTENSIONS

IsPhotoEntry(f) ==
    /\ f.is_file
    /\ ~IsVideoEntry(f)
    /\ suffix(f.name) \in
          (IF script = "csd" THEN CSD_PHOTO_EXTENSIONS ELSE PHOTO_EXTENSIONS)

\* No photo of the listing is in the batch, has a call issued for it, or
\* has an outcome; every video of the listing is in the batch, and once
\* the run is over each has been processed
PhotosOutVideosIn ==
    /\ \A k \in 1..Len(media_files) : media_files[k].media_type = "video"
    /\ \A f \in Range(env.listing) :
          IsPhotoEntry(f) =>
              /\ \A i \in 1..Len(calls) : calls[i].name # f.name
              /\ \A g \in output_dir.files : g.name # f.name
    /\ success_count + skipped_count + error_count
          <= Cardinality({ f \in Range(env.listing) : IsVideoEntry(f) })
    /\ (Ended /\ \E f \in Range(env.listing) : IsVideoEntry(f)) =>
          /\ pc = "done"
          /\ \A f \in Range(env.listing) :
                IsVideoEntry(f) =>
                    \E k \in 1..Len(outcomes) : media_files[k].name = f.name

\* C15, as stated: in each photo-capable script, when exiftool is not
\* found the photos are left out of the batch and the videos are still
\* processed, the run going to its summary when there is a video.
C15_Original ==
    (/\ script \in {"scd", "csd"}
     /\ ~env.exiftool
     /\ CommandLineOk
     /\ env.dir_kind = "dir")
    => PhotosOutVideosIn

\* C15: in change_shot_date, when exiftool is not found the photos are
\* left out of the batch up front (no call, no output file, no count) and
\* every video is processed, the run going to its summary when the
\* directory holds a video; set_creation_date_from_filename, which writes
\* videos with exiftool too, ends with status 1 before listing anything.
C15_PhotosExcluded ==
    /\ (/\ script = "csd"
        /\ ~env.exiftool
        /\ CommandLineOk
        /\ env.dir_kind = "dir")
       => PhotosOutVideosIn
    /\ (script = "scd" /\ ~env.exiftool /\ args.argc = 2) =>
          /\ media_files = << >>
          /\ calls = << >>
          /\ ~output_dir.exists
          /\ pc \in {"start", "exit"}
          /\ pc = "exit" => exit_status = 1

\* change_shot_date ended its run without exiftool over a directory of a
\* photo and a video: the video was written
C15_Witness ==
    /\ script = "csd"
    /\ ~env.exiftool
    /\ pc = "done"
    /\ \E f \in Range(env.listing) : IsPhotoEntry(f)
    /\ success_count >= 1
    /\ Len(media_files) < Len(env.listing)


\* exiftool is missing and the directory holds photos of change_shot_date
\* and no video: the missing collaborator leaves no file to process
ToolLeavesNothing ==
    /\ script = "csd"
    /\ ~env.exiftool
    /\ \E f \in Range(env.listing) : IsPhotoEntry(f)
    /\ ~\E f \in Range(env.listing) : IsVideoEntry(f)

\* C16: a run that passes the checks made before the directory is listed
\* ends with exit status 0, when the loop completes, with errors counted or
\* not, and when the directory holds no media file; exit status 1 comes
\* only from a refused command line or directory, or from a missing
\* collaborator that leaves no file to process.
C16_ExitStatus ==
    Ended =>
        /\ (PreflightOk /\ ~ToolLeavesNothing) => exit_status = 0
        /\ exit_status = 1 => (~PreflightOk \/ ToolLeavesNothing)


\* The place of a step in the order probe, copy, write
StepRank(op) == CASE op = "probe" -> 1 [] op = "copy" -> 2 [] op = "write" -> 3

\* The steps taken for the files go forward only: the calls of one file
\* are in the order probe, copy, write with none repeated and none after a
\* failed one; no call is issued for a file after a call for a later file,
\* nor for a file whose iteration has not begun; a success has a write
\* that returned 0 as its last call, a skip has no copy and no write, and
\* an error has no write that returned 0
StepsForward ==
    /\ \A i, j \in 1..Len(calls) :
          (i < j /\ calls[i].name = calls[j].name) =>
              /\ StepRank(calls[i].op) < StepRank(calls[j].op)
              /\ calls[i].op # "probe" => calls[i].status = 0
    /\ \A k, l \in 1..Len(media_files) :
          k < l => \A i \in CallsOf(k), j \in CallsOf(l) : i < j
    /\ \A k \in (idx + 1)..Len(media_files) : CallsOf(k) = {}
    /\ \A k \in 1..idx :
          /\ outcomes[k] \in {"success", "skipped", "error"}
          /\ outcomes[k] = "success" =>
                \E i \in CallsOf(k) :
                    /\ calls[i].op = "write"
                    /\ calls[i].status = 0
                    /\ \A j \in CallsOf(k) : j <= i
          /\ outcomes[k] = "skipped" =>
                \A i \in CallsOf(k) : calls[i].op = "probe"
          /\ outcomes[k] = "error" =>
                \A i \in CallsOf(k) :
                    calls[i].op = "write" => calls[i].status # 0

\* C17: each file of the batch goes forward only through its steps (probe
\* if any, resolve, write, outcome), no step is repeated or taken after
\* the outcome, success is recorded only after the write returned 0, and
\* each file reaches exactly one of the outcomes success, skipped, error:
\* when the run is over every file of the batch has its outcome.
C17_StateMachine ==
    /\ StepsForward
    /\ Len(outcomes) = idx
    /\ (Ended /\ media_files # << >>) => Len(outcomes) = Len(media_files)


---------------------------------------------------------------------------
(* Definitions the claims about the written values are stated with *)

\* The text is labelled as UTC: it ends with Z
LabelledUTC(v) == v # << >> /\ v[Len(v)] = "Z"

\* The write call i of change_shot_date in offset mode wrote the shifted
\* reading of a probe that was itself labelled as UTC
ShiftedUTCProbe(i) ==
    \E j \in 1..(i - 1) :
        /\ calls[j].op = "probe"
        /\ calls[j].name = calls[i].name
        /\ LabelledUTC(calls[j].out)
        /\ calls[i].value =
              strftime_iso_z(add_timedelta(strptime_ffmpeg(calls[j].out), args))

\* C18: no civil (zone-less) reading is written out as a UTC instant
\* without the conversion from the zone: the filename scripts write the
\* UTC time of the civil time of the name, and in change_shot_date a value
\* labelled with Z is either the converted --set-date or the shifted
\* reading of a probe that was UTC already.
C18_NoCivilAsUTC ==
    \A i \in 1..Len(calls) :
        calls[i].op = "write" =>
            CASE script = "scd" ->
                     calls[i].value = strftime_exif(
                         to_utc(extract_date_from_filename(calls[i].name)))
              [] script = "svd" ->
                     calls[i].value = strftime_iso_z(
                         to_utc(video_extract_date_from_filename(calls[i].name)))
              [] script = "csd" ->
                     LabelledUTC(calls[i].value) =>
                         IF use_exact_date(args)
                         THEN calls[i].value =
                                  strftime_iso_z(to_utc(exact_date(args)))
                         ELSE ShiftedUTCProbe(i)


---------------------------------------------------------------------------
(* Definitions the claims about a second run and the output are stated with *)

\* C19: the same script run a second time with the same command line over
\* the same directory, the collaborators answering as before, takes the
\* same files into its batch, in the same order, and ends as the first run
\* did: the same outcomes, counts, calls, exit and files in the output
\* subdirectory.  No file of the output subdirectory and not the
\* subdirectory itself is taken as an input, and no write fails because
\* the output file is there already.
C19_IdempotentRerun ==
    first_run.ran =>
        /\ pc \in {"loop", "done", "crashed"} =>
              /\ media_files = first_run.media_files
              /\ \A k \in 1..Len(outcomes) :
                    outcomes[k] = first_run.outcomes[k]
              /\ \A i \in 1..Len(calls) : calls[i] = first_run.calls[i]
        /\ \A k \in 1..Len(media_files) :
              media_files[k].name # output_entry(script).name
        /\ pc \in {"exit", "done", "crashed"} =>
              /\ pc = first_run.pc
              /\ exit_status = first_run.exit_status
              /\ outcomes = first_run.outcomes
              /\ success_count = first_run.success_count
              /\ error_count = first_run.error_count
              /\ skipped_count = first_run.skipped_count
              /\ calls = first_run.calls
              /\ output_dir.files = first_run.files

\* A second run is over: it wrote again a file the first run had written,
\* and failed again on a file the first run had failed on
C19_Witness ==
    /\ first_run.ran
    /\ pc = "done"
    /\ first_run.success_count >= 1
    /\ first_run.error_count >= 1
    /\ success_count >= 1
    /\ output_entry(script) \in Range(env.listing)
    /\ \E i \in 1..Len(calls) : calls[i].tool = "ffmpeg"


\* C20: when a run of a photo-capable script is over, every file of the
\* output subdirectory has the name of a file of the batch whose outcome
\* is success, and a file whose outcome is error has left no copy there.
C20_OutputOnlySuccess ==
    (script \in {"scd", "csd"} /\ Ended) =>
        /\ \A f \in output_dir.files :
              \E k \in 1..Len(outcomes) :
                  /\ media_files[k].name = f.name
                  /\ outcomes[k] = "success"
        /\ \A k \in 1..Len(outcomes) :
              outcomes[k] = "error" =>
                  \A f \in output_dir.files : f.name # media_files[k].name

---------------------------------------------------------------------------
(* Claims about the two extractors together *)

\* set_creation_date_from_filename returned its result through Pattern A:
\* pattern1 matched and no whitespace plus AM/PM follows the match
ThroughPatternA(s) ==
    LET i == pattern1_search(s)
    IN  i > 0 /\ ~MarkerAfter(s, pattern1_end(s, i))

\* C21: for every file name on which the extractor of
\* set_creation_date_from_filename returns a timestamp through Pattern A,
\* the extractor of set_video_date_from_filename returns the same timestamp.
C21_ExtractorsAgree ==
    (/\ fn_pc = "both"
     /\ ThroughPatternA(fn_in)
     /\ fn_out.scd.tag = "datetime")
    => fn_out.svd = fn_out.scd

---------------------------------------------------------------------------
(* Claims about the probe in filename-derived mode *)

\* The calls of the sequence cs that copy or write the file called name
Effects(cs, name) ==
    SelectSeq(cs, LAMBDA c : c.name = name /\ c.op \in {"copy", "write"})

\* The calls of the sequence cs that probe the file called name
ProbesOf(cs, name) ==
    SelectSeq(cs, LAMBDA c : c.name = name /\ c.op = "probe")

\* C22: in filename-derived mode, a second run of
\* set_creation_date_from_filename in which only the answers of the probe
\* may differ (a value, nothing, a failure) treats every file it has gone
\* through as the first run did: the same file at the same place of the
\* batch, the same outcome, the same copy and the same write with the same
\* UTC target, which is the file name's date converted from the fixed zone.
C22_ProbeIndependent ==
    (script = "scd" /\ first_run.ran /\ first_run.free = {"probe"}) =>
        \A k \in 1..Len(outcomes) :
            LET name == media_files[k].name
                date == extract_date_from_filename(name)
            IN  /\ media_files[k] = first_run.media_files[k]
                /\ outcomes[k] = first_run.outcomes[k]
                /\ Effects(calls, name) = Effects(first_run.calls, name)
                /\ \A i \in 1..Len(calls) :
                       (calls[i].name = name /\ calls[i].op = "write") =>
                           calls[i].value = strftime_exif(to_utc(date))

\* Both runs are over, and a file whose probe printed a value in the first
\* run and failed in the second was written with success both times
C22_Witness ==
    /\ script = "scd"
    /\ first_run.ran
    /\ first_run.free = {"probe"}
    /\ pc = "done"
    /\ \E k \in 1..Len(outcomes) :
          LET name == media_files[k].name
          IN  /\ outcomes[k] = "success"
              /\ first_run.outcomes[k] = "success"
              /\ ProbesOf(first_run.calls, name)[1].out # << >>
              /\ ProbesOf(calls, name)[1].status # 0
              /\ \E f \in output_dir.files :
                     /\ f.name = name
                     /\ f.stamp = strftime_exif(to_utc(extract_date_from_filename(name)))

---------------------------------------------------------------------------
(* Claims about compress_video *)

\* C23: in compress_video, distinct input videos of one run are written to
\* distinct output paths, and when the run is over the number of files in
\* the output directory equals the success count.
C23_DistinctOutputs ==
    (script = "cv" /\ pc \in {"loop", "done"}) =>
        /\ \A i, j \in 1..Len(media_files) :
               i # j => cv_output_name(args, media_files[i].name)
                            # cv_output_name(args, media_files[j].name)
        /\ pc = "done" => Cardinality(output_dir.files) = success_count

===========================================================================
